---- MODULE Spec2Model ----
(***************************************************************************)
(* League simulator: Monte Carlo engine of league-simulator-rust.          *)
(*                                                                         *)
(* Representation of the f64 quantities of the source.  Every real is an   *)
(* integer on a fixed grid:                                                *)
(*   probabilities, uniforms, Poisson means, CDF values : 1e-6  (Micro)    *)
(*   ELO ratings, home advantage, rating shifts          : 1e-2  (Centi)   *)
(*   sqrt(goal difference)                               : 1e-3  (Milli)   *)
(* All intermediate products are split so that they stay below 2^31.       *)
(***************************************************************************)
EXTENDS Integers, Sequences, FiniteSets, TLC

VARIABLES
    season,           \* the Season handed to the driver (borrowed, &Season)
    params,           \* SimulationParams
    adj,              \* the four optional adjustment vectors of the entry point
    entry,            \* "plain" = run_monte_carlo_simulation, "adjusted" = ..._with_adjustments,
                      \* "simulate_league" = run_monte_carlo_simulation called by the handler
    position_counts,  \* Vec<Mutex<Vec<usize>>>: the data behind each row mutex
    mutex,            \* per row: 0 = unlocked, w = held by worker w
    pending,          \* iteration indices of 0..N-1 not yet picked up by a worker
    workers,          \* per rayon worker: its position in the for_each closure
    main,             \* the calling thread: pc, run number, results
    walk,             \* one simulate_season call, match by match
    q,                \* one poisson quantile call
    elo,              \* one calculate_elo_change call
    tab,              \* one calculate_table call
    api               \* one HTTP request: simulate_league or simulate_batch

vars == <<season, params, adj, entry, position_counts, mutex, pending, workers,
          main, walk, q, elo, tab, api>>

----------------------------------------------------------------------------
(* Fixed-point grids *)

Micro == 1000000
Milli == 1000
Centi == 100

None == -1            \* Option::None of an Option<i32> goal field (goals are >= 0)

Abs(x) == IF x < 0 THEN -x ELSE x
Max2(a, b) == IF a >= b THEN a ELSE b
Min2(a, b) == IF a <= b THEN a ELSE b
Sgn(x) == IF x > 0 THEN 1 ELSE IF x < 0 THEN -1 ELSE 0

\* floor(a*b/c) without forming a*b; exact for any integer a, 0 <= b, 0 < c
MulDiv(a, b, c) == (a \div c) * b + ((a % c) * b) \div c

\* a*b on the Micro grid, 0 <= a <= 2*Micro, 0 <= b <= Micro
MulScale(a, b) == (a * (b \div Milli)) \div Milli + (a * (b % Milli)) \div Micro

\* a * x for x a Micro-grid real >= 0 of any size, 0 <= a <= Micro
MulReal(a, x) == a * (x \div Micro) + MulScale(a, x % Micro)

\* a/b on the Micro grid, 0 <= a <= 2*Micro, 0 < b <= 2*Micro
DivScale(a, b) == ((a * Milli) \div b) * Milli + (((a * Milli) % b) * Milli) \div b

\* f64::sqrt of a small non-negative integer, on the Milli grid
RECURSIVE SqrtSearch(_, _, _)
SqrtSearch(n, lo, hi) ==
    IF lo >= hi THEN lo
    ELSE LET mid == (lo + hi + 1) \div 2
         IN  IF mid * mid <= n THEN SqrtSearch(n, mid, hi)
             ELSE SqrtSearch(n, lo, mid - 1)

SqrtMilli(g) == SqrtSearch(g * Micro, 0, 46340)

\* e^-1 and ln 10 on the Micro grid
ExpNeg1 == 367879
Ln10Centi == 57565     \* ln(10)/400 per centi-ELO, in 1e-9: arg = c * 57565 / 1000

RECURSIVE ExpNegInt(_)
ExpNegInt(n) == IF n = 0 THEN Micro ELSE MulScale(ExpNegInt(n - 1), ExpNeg1)

\* Taylor series of e^-f for 0 <= f < 1: sum of (-f)^n / n!
RECURSIVE ExpNegFrac(_, _, _)
ExpNegFrac(f, n, term) ==
    IF term = 0 THEN 0
    ELSE (IF n % 2 = 0 THEN term ELSE -term)
         + ExpNegFrac(f, n + 1, MulScale(term, f) \div (n + 1))

\* f64::exp(-x) for x >= 0 on the Micro grid
ExpNeg(x) == MulScale(ExpNegInt(x \div Micro), ExpNegFrac(x % Micro, 0, Micro))

----------------------------------------------------------------------------
(* elo/mod.rs *)

EloClamp == 400        \* bound of elo_delta_inv, in ELO points

\* 10_f64.powf(c / 400.0) for 0 <= c <= 400 ELO, as its reciprocal 10^(-c/400) <= 1
Pow10Neg(cCenti) == ExpNeg(MulDiv(cCenti, Ln10Centi, Milli))

\* 1.0 / (1.0 + 10^(c/400)) on the Micro grid, c the clamped inverse delta in centi-ELO
EloProb(cCenti) ==
    IF cCenti >= 0
    THEN LET e == Pow10Neg(cCenti) IN DivScale(e, Micro + e)
    ELSE DivScale(Micro, Micro + Pow10Neg(-cCenti))

\* elo_delta_inv.max(-400.0).min(400.0)
EloDeltaInvClamped(p) ==
    Min2(Max2(p.elo_away - p.elo_home - p.home_advantage, -(EloClamp * Centi)),
         EloClamp * Centi)

\* ((0 < goal_diff) as i32 - (goal_diff < 0) as i32 + 1) as f64 / 2.0, on the Micro grid
MatchResult(goal_diff) == ((Sgn(goal_diff) + 1) * Micro) \div 2

\* (goal_diff.abs().max(1) as f64).sqrt(), on the Milli grid
GoalMod(goal_diff) == SqrtMilli(Max2(Abs(goal_diff), 1))

\* (result - elo_prob) * goal_mod * mod_factor, in centi-ELO; the product is
\* rounded toward zero, so that opposite inputs give opposite shifts as in f64
EloModificator(p) ==
    LET goal_diff == p.goals_home - p.goals_away
        d         == MatchResult(goal_diff) - EloProb(EloDeltaInvClamped(p))
        m         == MulDiv(Abs(d), GoalMod(goal_diff), Milli)
    IN  Sgn(d) * ((m * p.mod_factor) \div (Micro \div Centi))

\* variant: the away rating is moved with the sign of the home rating
calculate_elo_change_same_sign(p) ==
    LET elo_modificator == EloModificator(p)
    IN  [new_elo_home |-> p.elo_home + elo_modificator,
         new_elo_away |-> p.elo_away + elo_modificator,
         goals_home |-> p.goals_home,
         goals_away |-> p.goals_away,
         win_probability_home |-> EloProb(EloDeltaInvClamped(p))]

calculate_elo_change(p) ==
    LET elo_modificator == EloModificator(p)
    IN  [new_elo_home |-> p.elo_home + elo_modificator,
         new_elo_away |-> p.elo_away - elo_modificator,
         goals_home |-> p.goals_home,
         goals_away |-> p.goals_away,
         win_probability_home |-> EloProb(EloDeltaInvClamped(p))]

----------------------------------------------------------------------------
(* simulation/match_sim.rs, simulation/match_sim_fixed.rs *)

I32Max == 2147483647
HighSlope == 3         \* high = (lambda * 3.0 + 20.0) as u64
HighOffset == 20
LambdaFloor == 1000    \* .max(0.001), on the Micro grid
DirectLambdaLimit == 10
DirectMaxK == 100

\* an f64 that holds a count: a finite non-negative integer or f64::INFINITY
Finite(k) == [inf |-> FALSE, k |-> k, panic |-> FALSE]
Infinity == [inf |-> TRUE, k |-> 0, panic |-> FALSE]

\* StatrsPoisson::new(lambda).unwrap() panics unless lambda > 0
Panicked == [inf |-> FALSE, k |-> 0, panic |-> TRUE]

\* `x as i32` of such an f64 (a saturating cast)
AsI32(x) == IF x.inf THEN I32Max ELSE Min2(x.k, I32Max)

\* P(X = j+1) from P(X = j), rounded to the nearest grid point
NextPmf(j, pj, lambda) == (MulReal(pj, lambda) + (j + 1) \div 2) \div (j + 1)

\* the mass at or below k, and the mass above k, summed from P(X = 0)
RECURSIVE LowerSum(_, _, _, _)
LowerSum(j, pj, k, lambda) ==
    IF j > k THEN 0 ELSE pj + LowerSum(j + 1, NextPmf(j, pj, lambda), k, lambda)

RECURSIVE UpperTail(_, _, _, _)
UpperTail(j, pj, k, lambda) ==
    IF pj = 0 /\ j * Micro > lambda THEN 0
    ELSE (IF j > k THEN pj ELSE 0)
         + UpperTail(j + 1, NextPmf(j, pj, lambda), k, lambda)

\* statrs Poisson::cdf(k) = P(X <= k), the regularized upper incomplete gamma
\* function: below the mean it is the lower sum, above it 1 minus the upper mass,
\* which is exactly 1.0 once that mass is below the grid
PoissonCdf(k, lambda) ==
    IF k * Micro < lambda
    THEN Min2(LowerSum(0, ExpNeg(lambda), k, lambda), Micro)
    ELSE Min2(Max2(Micro - UpperTail(0, ExpNeg(lambda), k, lambda), 0), Micro)

\* (lambda * 3.0 + 20.0) as u64
UpperBoundEstimate(lambda) == (lambda * HighSlope + HighOffset * Micro) \div Micro

\* variant: the strict/non-strict slip of the comparison
SearchHigherOrEqual(cdf, p) == cdf <= p

\* the test of the binary search: search the upper half
SearchHigher(cdf, p) == cdf < p

RECURSIVE BinarySearch(_, _, _, _)
BinarySearch(low, high, p, lambda) ==
    IF low < high
    THEN LET mid == (low + high) \div 2
         IN  IF SearchHigher(PoissonCdf(mid, lambda), p)
             THEN BinarySearch(mid + 1, high, p, lambda)
             ELSE BinarySearch(low, mid, p, lambda)
    ELSE low

\* variant: the guard on p >= 1 is missing
poisson_quantile_unguarded(p, lambda) ==
    IF p <= 0 THEN Finite(0)
    ELSE IF lambda <= 0 THEN Panicked
    ELSE Finite(BinarySearch(0, UpperBoundEstimate(lambda), p, lambda))

poisson_quantile_statrs(p, lambda) ==
    IF p <= 0 THEN Finite(0)
    ELSE IF p >= Micro THEN Infinity
    ELSE IF lambda <= 0 THEN Panicked
    ELSE Finite(BinarySearch(0, UpperBoundEstimate(lambda), p, lambda))

\* match_sim_fixed.rs: the same search, `cdf < p`
SearchHigherFixed(cdf, p) == cdf < p

RECURSIVE BinarySearchFixed(_, _, _, _)
BinarySearchFixed(low, high, p, lambda) ==
    IF low < high
    THEN LET mid == (low + high) \div 2
         IN  IF SearchHigherFixed(PoissonCdf(mid, lambda), p)
             THEN BinarySearchFixed(mid + 1, high, p, lambda)
             ELSE BinarySearchFixed(low, mid, p, lambda)
    ELSE low

poisson_quantile_statrs_fixed(p, lambda) ==
    IF p <= 0 THEN Finite(0)
    ELSE IF p >= Micro THEN Infinity
    ELSE IF lambda <= 0 THEN Panicked
    ELSE Finite(BinarySearchFixed(0, UpperBoundEstimate(lambda), p, lambda))

\* while cumulative < p && k < 100 { k += 1; prob *= lambda / k; cumulative += prob }
RECURSIVE DirectLoop(_, _, _, _, _)
DirectLoop(k, prob, cumulative, p, lambda) ==
    IF cumulative < p /\ k < DirectMaxK
    THEN LET prob2 == MulReal(prob, lambda \div (k + 1))
         IN  DirectLoop(k + 1, prob2, cumulative + prob2, p, lambda)
    ELSE k

poisson_quantile_direct(p, lambda) ==
    IF p <= 0 THEN Finite(0)
    ELSE IF p >= Micro THEN Infinity
    ELSE IF lambda < DirectLambdaLimit * Micro
         THEN Finite(DirectLoop(0, ExpNeg(Max2(lambda, 0)), ExpNeg(Max2(lambda, 0)),
                                p, lambda))
         ELSE poisson_quantile_statrs_fixed(p, lambda)

\* match_sim.rs: poisson_quantile delegates to poisson_quantile_statrs
poisson_quantile(p, lambda) == poisson_quantile_statrs(p, lambda)

\* (elo_delta * tore_slope + tore_intercept).max(0.001); tore_slope in 1e-7 per ELO
GoalAverage(elo_delta, tore_slope, tore_intercept) ==
    Max2(MulDiv(elo_delta, tore_slope, Milli) + tore_intercept, LambdaFloor)

simulate_match(elo_home, elo_away, mod_factor, home_advantage, tore_slope, tore_intercept, random_home, random_away) ==
    LET elo_delta == elo_home + home_advantage - elo_away
        tore_heim_durchschnitt == GoalAverage(elo_delta, tore_slope, tore_intercept)
        tore_gast_durchschnitt == GoalAverage(-elo_delta, tore_slope, tore_intercept)
        goals_home == AsI32(poisson_quantile(random_home, tore_heim_durchschnitt))
        goals_away == AsI32(poisson_quantile(random_away, tore_gast_durchschnitt))
    IN  calculate_elo_change([elo_home |-> elo_home, elo_away |-> elo_away,
                              goals_home |-> goals_home, goals_away |-> goals_away,
                              mod_factor |-> mod_factor,
                              home_advantage |-> home_advantage])

----------------------------------------------------------------------------
(* rand: StdRng::seed_from_u64 and Rng::gen::<f64>, a seedable deterministic *)
(* stream; every output is a function of the seed and of its index alone     *)

seed_from_u64(seed) == [state |-> (seed * 7919 + 30011) % 65536, n |-> 0]

\* rng.gen::<f64>(): the advanced generator and a uniform of [0, 1) on the Micro grid
gen_f64(rng) ==
    LET s == (rng.state * 25173 + 13849) % 65536
    IN  [rng |-> [state |-> s, n |-> rng.n + 1], value |-> (s * 15258) \div Milli]

----------------------------------------------------------------------------
(* simulation/match_sim.rs: simulate_match_random *)

\* variant: the away uniform is drawn first
simulate_match_random_swapped(elo_home, elo_away, mod_factor, home_advantage, tore_slope, tore_intercept, rng) ==
    LET d1 == gen_f64(rng)
        d2 == gen_f64(d1.rng)
    IN  [result |-> simulate_match(elo_home, elo_away, mod_factor, home_advantage,
                                   tore_slope, tore_intercept, d2.value, d1.value),
         random_home |-> d2.value,
         random_away |-> d1.value,
         rng |-> d2.rng]

\* the two uniforms are drawn home first, away second
simulate_match_random(elo_home, elo_away, mod_factor, home_advantage, tore_slope, tore_intercept, rng) ==
    LET d1 == gen_f64(rng)
        d2 == gen_f64(d1.rng)
    IN  [result |-> simulate_match(elo_home, elo_away, mod_factor, home_advantage,
                                   tore_slope, tore_intercept, d1.value, d2.value),
         random_home |-> d1.value,
         random_away |-> d2.value,
         rng |-> d2.rng]

----------------------------------------------------------------------------
(* simulation/season.rs: simulate_season                                    *)
(* A walk is the memory of one call: the borrowed Season, the two clones    *)
(* the loop writes to, the generator, the index of the next match, and a    *)
(* log of what each iteration of the loop was fed.                          *)

\* let mut matches = season.matches.clone(); let mut elos = season.team_elos.clone();
BeginWalk(s, rng) ==
    [season |-> s, matches |-> s.matches, elos |-> s.team_elos,
     rng |-> rng, rng0 |-> rng, idx |-> 1, fed |-> <<>>]

\* variant: the loop reads the ratings of the Season, not the running ones
RatingsReadInitial(ws) ==
    [home |-> ws.season.team_elos[ws.matches[ws.idx].team_home],
     away |-> ws.season.team_elos[ws.matches[ws.idx].team_away]]

\* the ratings the loop body reads for the current match: elos[team_home], elos[team_away]
RatingsRead(ws) ==
    [home |-> ws.elos[ws.matches[ws.idx].team_home],
     away |-> ws.elos[ws.matches[ws.idx].team_away]]

\* variant: no clone, the loop writes through to the Season
WriteBackThrough(ws, goals_home, goals_away, new_elo_home, new_elo_away, rng, fedEntry) ==
    LET m == ws.matches[ws.idx]
        done == [m EXCEPT !.goals_home = goals_home, !.goals_away = goals_away]
    IN  [ws EXCEPT
           !.matches[ws.idx] = done,
           !.season.matches[ws.idx] = done,
           !.elos = [t \in DOMAIN ws.elos |->
                       IF t = m.team_away THEN new_elo_away
                       ELSE IF t = m.team_home THEN new_elo_home
                       ELSE ws.elos[t]],
           !.rng = rng,
           !.idx = ws.idx + 1,
           !.fed = Append(ws.fed, fedEntry)]

\* variant: only the home goals are written back
WriteBackHomeOnly(ws, goals_home, goals_away, new_elo_home, new_elo_away, rng, fedEntry) ==
    LET m == ws.matches[ws.idx]
    IN  [ws EXCEPT
           !.matches[ws.idx] = [m EXCEPT !.goals_home = goals_home],
           !.elos = [t \in DOMAIN ws.elos |->
                       IF t = m.team_away THEN new_elo_away
                       ELSE IF t = m.team_home THEN new_elo_home
                       ELSE ws.elos[t]],
           !.rng = rng,
           !.idx = ws.idx + 1,
           !.fed = Append(ws.fed, fedEntry)]

\* variant: the new home rating is stored for every team but the away team
WriteBackAllHome(ws, goals_home, goals_away, new_elo_home, new_elo_away, rng, fedEntry) ==
    LET m == ws.matches[ws.idx]
    IN  [ws EXCEPT
           !.matches[ws.idx] = [m EXCEPT !.goals_home = goals_home,
                                         !.goals_away = goals_away],
           !.elos = [t \in DOMAIN ws.elos |->
                       IF t = m.team_away THEN new_elo_away ELSE new_elo_home],
           !.rng = rng,
           !.idx = ws.idx + 1,
           !.fed = Append(ws.fed, fedEntry)]

\* the memory after match_data.goals_* = Some(..) and elos[..] = ..
WriteBack(ws, goals_home, goals_away, new_elo_home, new_elo_away, rng, fedEntry) ==
    LET m == ws.matches[ws.idx]
    IN  [ws EXCEPT
           !.matches[ws.idx] = [m EXCEPT !.goals_home = goals_home,
                                         !.goals_away = goals_away],
           !.elos = [t \in DOMAIN ws.elos |->
                       IF t = m.team_away THEN new_elo_away
                       ELSE IF t = m.team_home THEN new_elo_home
                       ELSE ws.elos[t]],
           !.rng = rng,
           !.idx = ws.idx + 1,
           !.fed = Append(ws.fed, fedEntry)]

\* variant: every match is simulated, the stored goals are ignored
SeasonStepAlwaysSimulate(ws, P) ==
    LET r == RatingsRead(ws)
        sim == simulate_match_random(r.home, r.away, P.mod_factor, P.home_advantage,
                                     P.tore_slope, P.tore_intercept, ws.rng)
    IN  WriteBack(ws, sim.result.goals_home, sim.result.goals_away,
                  sim.result.new_elo_home, sim.result.new_elo_away, sim.rng,
                  [simulated |-> TRUE, elo_home |-> r.home, elo_away |-> r.away,
                   random_home |-> sim.random_home, random_away |-> sim.random_away])

\* one iteration of `for match_data in &mut matches`
SeasonStep(ws, P) ==
    LET m == ws.matches[ws.idx]
        r == RatingsRead(ws)
    IN  IF m.goals_home = None
        THEN LET sim == simulate_match_random(r.home, r.away, P.mod_factor,
                                              P.home_advantage, P.tore_slope,
                                              P.tore_intercept, ws.rng)
             IN  WriteBack(ws, sim.result.goals_home, sim.result.goals_away,
                           sim.result.new_elo_home, sim.result.new_elo_away, sim.rng,
                           [simulated |-> TRUE, elo_home |-> r.home, elo_away |-> r.away,
                            random_home |-> sim.random_home,
                            random_away |-> sim.random_away])
        ELSE LET res == calculate_elo_change(
                            [elo_home |-> r.home, elo_away |-> r.away,
                             goals_home |-> m.goals_home, goals_away |-> m.goals_away,
                             mod_factor |-> P.mod_factor,
                             home_advantage |-> P.home_advantage])
             IN  WriteBack(ws, m.goals_home, m.goals_away,
                           res.new_elo_home, res.new_elo_away, ws.rng,
                           [simulated |-> FALSE, elo_home |-> r.home, elo_away |-> r.away,
                            random_home |-> None, random_away |-> None])

WalkDone(ws) == ws.idx > Len(ws.matches)

RECURSIVE RunWalk(_, _)
RunWalk(ws, P) == IF WalkDone(ws) THEN ws ELSE RunWalk(SeasonStep(ws, P), P)

\* the walk at its return: (matches, elos), and the Season as the call leaves it
simulate_season(s, P, rng) == RunWalk(BeginWalk(s, rng), P)

----------------------------------------------------------------------------
(* simulation/season.rs: calculate_table *)

WinPoints == 3
DrawPoints == 1

\* Option<&[i32]>: None, or Some of a vector indexed from 0
NoVec == [some |-> FALSE, v |-> <<>>]
SomeVec(v) == [some |-> TRUE, v |-> v]

\* variant: a missing vector counts as one per team
AdjAtDefaultOne(a, i) == IF a.some THEN a.v[i] ELSE 1

\* adj.map(|a| a[i]).unwrap_or(0)
AdjAt(a, i) == IF a.some THEN a.v[i] ELSE 0

\* variant: the goal adjustments also enter the goal difference
InitialStandingDerivedDiff(i, adj_points, adj_goals, adj_goals_against, adj_goal_diff) ==
    [team_id |-> i, played |-> 0, won |-> 0, drawn |-> 0, lost |-> 0,
     goals_for |-> AdjAt(adj_goals, i),
     goals_against |-> AdjAt(adj_goals_against, i),
     goal_difference |-> AdjAt(adj_goal_diff, i) + AdjAt(adj_goals, i)
                         - AdjAt(adj_goals_against, i),
     points |-> AdjAt(adj_points, i),
     position |-> 0]

InitialStanding(i, adj_points, adj_goals, adj_goals_against, adj_goal_diff) ==
    [team_id |-> i, played |-> 0, won |-> 0, drawn |-> 0, lost |-> 0,
     goals_for |-> AdjAt(adj_goals, i),
     goals_against |-> AdjAt(adj_goals_against, i),
     goal_difference |-> AdjAt(adj_goal_diff, i),
     points |-> AdjAt(adj_points, i),
     position |-> 0]

\* variant: the goals conceded are not accumulated
SideAfterGoalsAgainstDropped(st, gf, ga) ==
    [st EXCEPT !.played = @ + 1,
               !.goals_for = @ + gf,
               !.goal_difference = @ + (gf - ga),
               !.won = IF gf > ga THEN @ + 1 ELSE @,
               !.lost = IF gf < ga THEN @ + 1 ELSE @,
               !.drawn = IF gf = ga THEN @ + 1 ELSE @,
               !.points = IF gf > ga THEN @ + WinPoints
                          ELSE IF gf = ga THEN @ + DrawPoints ELSE @]

\* variant: the goal difference grows by the goals scored alone
SideAfterDiffFromGoalsFor(st, gf, ga) ==
    [st EXCEPT !.played = @ + 1,
               !.goals_for = @ + gf,
               !.goals_against = @ + ga,
               !.goal_difference = @ + gf,
               !.won = IF gf > ga THEN @ + 1 ELSE @,
               !.lost = IF gf < ga THEN @ + 1 ELSE @,
               !.drawn = IF gf = ga THEN @ + 1 ELSE @,
               !.points = IF gf > ga THEN @ + WinPoints
                          ELSE IF gf = ga THEN @ + DrawPoints ELSE @]

\* variant: a win is worth two points
SideAfterTwoPointWin(st, gf, ga) ==
    [st EXCEPT !.played = @ + 1,
               !.goals_for = @ + gf,
               !.goals_against = @ + ga,
               !.goal_difference = @ + (gf - ga),
               !.won = IF gf > ga THEN @ + 1 ELSE @,
               !.lost = IF gf < ga THEN @ + 1 ELSE @,
               !.drawn = IF gf = ga THEN @ + 1 ELSE @,
               !.points = IF gf > ga THEN @ + 2
                          ELSE IF gf = ga THEN @ + DrawPoints ELSE @]

\* the standing of one side after a played match: gf/ga its goals for and against
SideAfter(st, gf, ga) ==
    [st EXCEPT !.played = @ + 1,
               !.goals_for = @ + gf,
               !.goals_against = @ + ga,
               !.goal_difference = @ + (gf - ga),
               !.won = IF gf > ga THEN @ + 1 ELSE @,
               !.lost = IF gf < ga THEN @ + 1 ELSE @,
               !.drawn = IF gf = ga THEN @ + 1 ELSE @,
               !.points = IF gf > ga THEN @ + WinPoints
                          ELSE IF gf = ga THEN @ + DrawPoints ELSE @]

\* variant: only the home side of a played match is updated
ApplyMatchHomeOnly(standings, m) ==
    IF m.goals_home = None \/ m.goals_away = None THEN standings
    ELSE [standings EXCEPT ![m.team_home] = SideAfter(@, m.goals_home, m.goals_away)]

\* the body of `for match_data in matches`; a match without goals is skipped;
\* the home side is updated first and the away side reads the result
ApplyMatch(standings, m) ==
    IF m.goals_home = None \/ m.goals_away = None THEN standings
    ELSE LET h == [standings EXCEPT ![m.team_home] =
                       SideAfter(@, m.goals_home, m.goals_away)]
         IN  [h EXCEPT ![m.team_away] = SideAfter(@, m.goals_away, m.goals_home)]

RECURSIVE ApplyMatches(_, _, _)
ApplyMatches(standings, matches, i) ==
    IF i > Len(matches) THEN standings
    ELSE ApplyMatches(ApplyMatch(standings, matches[i]), matches, i + 1)

\* variant: the comparator stops at the goal difference
StandingBeforeNoGoalsFor(a, b) ==
    \/ a.points > b.points
    \/ a.points = b.points /\ a.goal_difference > b.goal_difference

\* the comparator of sort_by: a sorts strictly before b
StandingBefore(a, b) ==
    \/ a.points > b.points
    \/ a.points = b.points /\ a.goal_difference > b.goal_difference
    \/ a.points = b.points /\ a.goal_difference = b.goal_difference
       /\ a.goals_for > b.goals_for

\* slice::sort_by is a stable sort: x goes before the first element it beats
RECURSIVE InsertStable(_, _)
InsertStable(sorted, x) ==
    IF sorted = <<>> THEN <<x>>
    ELSE IF StandingBefore(x, Head(sorted)) THEN <<x>> \o sorted
    ELSE <<Head(sorted)>> \o InsertStable(Tail(sorted), x)

RECURSIVE SortStandings(_, _, _)
SortStandings(standings, i, n) ==
    IF i < 0 THEN <<>>
    ELSE InsertStable(SortStandings(standings, i - 1, n), standings[i])

\* variant: standings equal on all three keys share a position
RECURSIVE SharedPosition(_, _)
SharedPosition(sorted, k) ==
    IF k > 1 /\ ~StandingBefore(sorted[k - 1], sorted[k])
    THEN SharedPosition(sorted, k - 1) ELSE k

AssignPositionsShared(sorted) ==
    [k \in 1..Len(sorted) |-> [sorted[k] EXCEPT !.position = SharedPosition(sorted, k)]]

\* variant: positions counted from zero
AssignPositionsFromZero(sorted) ==
    [k \in 1..Len(sorted) |-> [sorted[k] EXCEPT !.position = k - 1]]

\* standing.position = pos + 1
AssignPositions(sorted) == [k \in 1..Len(sorted) |-> [sorted[k] EXCEPT !.position = k]]

calculate_table(matches, number_teams, adj_points, adj_goals, adj_goals_against, adj_goal_diff) ==
    LET init == [i \in 0..(number_teams - 1) |->
                    InitialStanding(i, adj_points, adj_goals, adj_goals_against,
                                    adj_goal_diff)]
        filled == ApplyMatches(init, matches, 1)
    IN  [standings |-> AssignPositions(SortStandings(filled, number_teams - 1,
                                                     number_teams))]

process_season(s, P, adj_points, adj_goals, adj_goals_against, adj_goal_diff, rng) ==
    LET w == simulate_season(s, P, rng)
    IN  [table |-> calculate_table(w.matches, s.number_teams, adj_points, adj_goals,
                                   adj_goals_against, adj_goal_diff),
         final_elos |-> w.elos,
         season |-> w.season]

----------------------------------------------------------------------------
(* monte_carlo/mod.rs: the closure of into_par_iter().for_each and the       *)
(* conversion of the histogram into the SimulationResult                     *)

\* variant: the generator is seeded per worker thread
TrialSeedPerWorker(iteration, w) == w

\* StdRng::seed_from_u64(iteration as u64): the seed of the trial that worker w runs
TrialSeed(iteration, w) == iteration

\* variant: the row is updated without mutual exclusion
MutexIgnored(m, row) == TRUE

\* Mutex::lock() returns once no other thread holds the row's mutex
MutexFree(m, row) == m[row] = 0

NaN == -1              \* 0.0 / 0.0

\* count as f64 / params.iterations as f64, on the Micro grid
Prob(count, iterations) ==
    IF iterations = 0 THEN NaN ELSE (count * Micro) \div iterations

RECURSIVE SumTo(_, _)
SumTo(f, n) == IF n < 0 THEN 0 ELSE f[n] + SumTo(f, n - 1)

\* .enumerate().map(|(pos, &prob)| (pos + 1) as f64 * prob).sum()
AvgPosition(row, n_teams) ==
    IF \E pos \in DOMAIN row : row[pos] = NaN THEN NaN
    ELSE SumTo([pos \in 0..(n_teams - 1) |-> (pos + 1) * row[pos]], n_teams - 1)

\* a.1.partial_cmp(&b.1).unwrap() == Less; sort_by is stable
RECURSIVE InsertRankingDescending(_, _)
InsertRankingDescending(sorted, x) ==
    IF sorted = <<>> THEN <<x>>
    ELSE IF x.avg > Head(sorted).avg THEN <<x>> \o sorted
    ELSE <<Head(sorted)>> \o InsertRankingDescending(Tail(sorted), x)

RECURSIVE InsertRanking(_, _)
InsertRanking(sorted, x) ==
    IF sorted = <<>> THEN <<x>>
    ELSE IF x.avg < Head(sorted).avg THEN <<x>> \o sorted
    ELSE <<Head(sorted)>> \o InsertRanking(Tail(sorted), x)

RECURSIVE SortRankings(_, _)
SortRankings(rankings, i) ==
    IF i < 0 THEN <<>> ELSE InsertRanking(SortRankings(rankings, i - 1), rankings[i])

\* format!("Team {}", team_id + 1)
TeamName(text) == [text |-> text, number |-> 0]
FormattedName(team_id) == [text |-> "Team ", number |-> team_id + 1]

\* lines 46-86: probabilities, ranking by average position, reordered rows and names
BuildResult(counts, n_teams, iterations, team_names) ==
    LET matrix == [t \in 0..(n_teams - 1) |->
                     [pos \in 0..(n_teams - 1) |-> Prob(counts[t][pos], iterations)]]
        rankings == [t \in 0..(n_teams - 1) |->
                       [team_id |-> t, avg |-> AvgPosition(matrix[t], n_teams)]]
        sorted == SortRankings(rankings, n_teams - 1)
    IN  [probability_matrix |-> [i \in 0..(n_teams - 1) |-> matrix[sorted[i + 1].team_id]],
         team_names |-> [i \in 0..(n_teams - 1) |->
                           IF sorted[i + 1].team_id \in DOMAIN team_names
                           THEN team_names[sorted[i + 1].team_id]
                           ELSE FormattedName(sorted[i + 1].team_id)]]

\* partial_cmp(..).unwrap() panics when the sort compares a NaN average
SortPanics(n_teams, iterations) == iterations = 0 /\ n_teams >= 2

\* the adjustments process_season receives from the entry point
NoAdjustments == [points |-> NoVec, goals |-> NoVec, goals_against |-> NoVec,
                  goal_diff |-> NoVec]

PassedAdjustmentsDropped(e, a) == NoAdjustments

PassedAdjustments(e, a) == IF e.fn = "adjusted" THEN a ELSE NoAdjustments

----------------------------------------------------------------------------
(* Inputs: the seasons and parameters of the repository's tests *)

Match(h, a, gh, ga) ==
    [team_home |-> h, team_away |-> a, goals_home |-> gh, goals_away |-> ga]

Elo(points) == points * Centi

\* monte_carlo/tests.rs, test_monte_carlo_deterministic
SeasonDeterministic ==
    [matches |-> <<Match(0, 1, None, None)>>,
     team_elos |-> [t \in 0..1 |-> Elo(1500)],
     number_teams |-> 2]

\* monte_carlo/tests.rs, test_monte_carlo_all_played_matches
SeasonAllPlayed ==
    [matches |-> <<Match(0, 1, 2, 0), Match(1, 2, 1, 3), Match(2, 0, 1, 1)>>,
     team_elos |-> (0 :> Elo(1500) @@ 1 :> Elo(1600) @@ 2 :> Elo(1400)),
     number_teams |-> 3]

\* monte_carlo/tests.rs, test_monte_carlo_with_adjustments
SeasonEqualTeams ==
    [matches |-> <<Match(0, 1, None, None), Match(1, 2, None, None),
                   Match(2, 0, None, None)>>,
     team_elos |-> [t \in 0..2 |-> Elo(1500)],
     number_teams |-> 3]

\* monte_carlo/tests.rs, test_monte_carlo_basic
SeasonBasic ==
    [matches |-> <<Match(0, 1, 3, 0), Match(1, 2, 1, 1), Match(2, 0, 0, 2),
                   Match(1, 0, None, None), Match(0, 2, None, None),
                   Match(2, 1, None, None)>>,
     team_elos |-> (0 :> Elo(1600) @@ 1 :> Elo(1500) @@ 2 :> Elo(1400)),
     number_teams |-> 3]

\* simulation/tests.rs, test_season_simulation: played and unplayed interleaved
SeasonMixed ==
    [matches |-> <<Match(0, 1, 2, 1), Match(1, 2, None, None),
                   Match(2, 0, None, None)>>,
     team_elos |-> (0 :> Elo(1500) @@ 1 :> Elo(1600) @@ 2 :> Elo(1400)),
     number_teams |-> 3]

\* models/mod.rs, impl Default for SimulationParams
DefaultModFactor == 20
DefaultHomeAdvantage == 65
DefaultToreSlope == 17855          \* 0.0017854953143549, in 1e-7
DefaultToreIntercept == 1321839    \* 1.3218390804597700, on the Micro grid

DefaultParams(iterations) ==
    [mod_factor |-> DefaultModFactor,
     home_advantage |-> DefaultHomeAdvantage * Centi,
     iterations |-> iterations,
     tore_slope |-> DefaultToreSlope,
     tore_intercept |-> DefaultToreIntercept]

\* elo/tests.rs, test_elo_conservation: mod_factor 40, no home advantage
TestParams(iterations) ==
    [DefaultParams(iterations) EXCEPT !.mod_factor = 2 * DefaultModFactor,
                                      !.home_advantage = 0]

----------------------------------------------------------------------------
(* Idle values of the parts of the state a specification does not use *)

Idle == [pc |-> "unused"]

DriverVars == <<season, params, adj, entry, position_counts, mutex, pending,
                workers, main>>

----------------------------------------------------------------------------
(* SpecQ: one call of each Poisson quantile on the same (p, lambda) *)

LambdaSteps == 12      \* lambda = 0.25, 0.5, ... in steps of a quarter
PSteps == 20           \* p on a coarse grid of PSteps steps
QMaxK == 6             \* and at, just below and just above CDF(k), k <= QMaxK

QLambdas ==
    {-(Micro \div 2), 0, LambdaFloor, DefaultToreIntercept}
    \cup {i * (Micro \div 4) : i \in 1..LambdaSteps}

QProbabilities(lambda) ==
    {(i * Micro) \div PSteps : i \in (-1)..(PSteps + 1)}
    \cup {1, Micro - 1}
    \cup (IF lambda > 0
          THEN {PoissonCdf(k, lambda) + d : k \in 0..QMaxK, d \in {-1, 0, 1}}
          ELSE {})

NotCalled == [inf |-> FALSE, k |-> -1, panic |-> FALSE]

InitQ ==
    /\ \E lambda \in QLambdas : \E p \in QProbabilities(lambda) :
          q = [p |-> p, lambda |-> lambda, statrs |-> NotCalled,
               fixed |-> NotCalled, direct |-> NotCalled]
    /\ season = Idle /\ params = Idle /\ adj = Idle /\ entry = Idle
    /\ position_counts = Idle /\ mutex = Idle /\ pending = Idle
    /\ workers = Idle /\ main = Idle /\ walk = Idle /\ elo = Idle /\ tab = Idle /\ api = Idle

CallStatrs ==
    /\ q.statrs = NotCalled
    /\ q' = [q EXCEPT !.statrs = poisson_quantile_statrs(q.p, q.lambda)]
    /\ UNCHANGED <<DriverVars, walk, elo, tab, api>>

CallFixed ==
    /\ q.fixed = NotCalled
    /\ q' = [q EXCEPT !.fixed = poisson_quantile_statrs_fixed(q.p, q.lambda)]
    /\ UNCHANGED <<DriverVars, walk, elo, tab, api>>

CallDirect ==
    /\ q.direct = NotCalled
    /\ q' = [q EXCEPT !.direct = poisson_quantile_direct(q.p, q.lambda)]
    /\ UNCHANGED <<DriverVars, walk, elo, tab, api>>

NextQ == CallStatrs \/ CallFixed \/ CallDirect

SpecQ == InitQ /\ [][NextQ]_vars

----------------------------------------------------------------------------
(* SpecElo: one call of calculate_elo_change *)

EloSteps == 5          \* ratings 1300, 1400, ... in steps of 100
MaxGoals == 3          \* goals 0..MaxGoals per side

EloRatings == {Elo(1300 + 100 * i) : i \in 0..EloSteps} \cup {Elo(1000), Elo(2000)}

InitElo ==
    /\ \E eh \in EloRatings, ea \in EloRatings, gh \in 0..MaxGoals, ga \in 0..MaxGoals,
          P \in {DefaultParams(1), TestParams(1)} :
          elo = [pc |-> "call",
                 params |-> [elo_home |-> eh, elo_away |-> ea, goals_home |-> gh,
                             goals_away |-> ga, mod_factor |-> P.mod_factor,
                             home_advantage |-> P.home_advantage],
                 result |-> Idle]
    /\ season = Idle /\ params = Idle /\ adj = Idle /\ entry = Idle
    /\ position_counts = Idle /\ mutex = Idle /\ pending = Idle
    /\ workers = Idle /\ main = Idle /\ walk = Idle /\ q = Idle /\ tab = Idle /\ api = Idle

CallEloChange ==
    /\ elo.pc = "call"
    /\ elo' = [elo EXCEPT !.pc = "returned",
                          !.result = calculate_elo_change(elo.params)]
    /\ UNCHANGED <<DriverVars, walk, q, tab, api>>

NextElo == CallEloChange

SpecElo == InitElo /\ [][NextElo]_vars

----------------------------------------------------------------------------
(* SpecWalk: one call of simulate_season, one match per step *)

MaxSeed == 3           \* the generator is seeded from 0..MaxSeed

WalkSeasons == {SeasonDeterministic, SeasonAllPlayed, SeasonEqualTeams,
                SeasonBasic, SeasonMixed}

InitWalk ==
    /\ season \in WalkSeasons
    /\ params \in {DefaultParams(1), TestParams(1)}
    /\ \E seed \in 0..MaxSeed : walk = BeginWalk(season, seed_from_u64(seed))
    /\ adj = Idle /\ entry = Idle
    /\ position_counts = Idle /\ mutex = Idle /\ pending = Idle
    /\ workers = Idle /\ main = Idle /\ q = Idle /\ elo = Idle /\ tab = Idle /\ api = Idle

\* the loop body; the borrowed Season is the memory the walk refers to
WalkStep ==
    /\ ~WalkDone(walk)
    /\ walk' = SeasonStep(walk, params)
    /\ season' = walk'.season
    /\ UNCHANGED <<params, adj, entry, position_counts, mutex, pending, workers,
                   main, q, elo, tab, api>>

NextWalk == WalkStep

SpecWalk == InitWalk /\ [][NextWalk]_vars

\* monte_carlo/tests.rs: the last team is penalised by 50 points
Penalty == 50
PenaltyOnLast(n_teams) ==
    [NoAdjustments EXCEPT
       !.points = SomeVec([t \in 0..(n_teams - 1) |->
                             IF t = n_teams - 1 THEN -Penalty ELSE 0])]

----------------------------------------------------------------------------
(* SpecTable: one call of calculate_table on a match list and four optional *)
(* adjustment vectors                                                       *)

MaxMatches == 3        \* match lists of 0..MaxMatches fixtures
MaxTableGoals == 1     \* stored goals 0..MaxTableGoals per side

\* fixture k of a list for n_teams teams: the teams meet in a fixed rotation
Fixture(n_teams, k) == [team_home |-> (k - 1) % n_teams, team_away |-> k % n_teams]

\* a match is unplayed (both goals absent) or played (both present)
TableOutcomes ==
    {<<None, None>>} \cup {<<gh, ga>> : gh \in 0..MaxTableGoals, ga \in 0..MaxTableGoals}

TableMatchLists(n_teams) ==
    UNION {{[k \in 1..n |-> Match(Fixture(n_teams, k).team_home,
                                  Fixture(n_teams, k).team_away, o[k][1], o[k][2])] :
               o \in [1..n -> TableOutcomes]} : n \in 0..MaxMatches}

Zeros(n_teams) == [t \in 0..(n_teams - 1) |-> 0]
Ramp(n_teams) == [t \in 0..(n_teams - 1) |-> t + 1]

\* the adjustment arguments of the call: absent, zero, one vector alone,
\* goal vectors together with a goal difference, the penalty of the tests
TableAdjustments(n_teams) ==
    LET z == SomeVec(Zeros(n_teams))
        r == SomeVec(Ramp(n_teams))
    IN  {NoAdjustments,
         [points |-> z, goals |-> z, goals_against |-> z, goal_diff |-> z],
         [NoAdjustments EXCEPT !.points = r],
         [NoAdjustments EXCEPT !.goals = r],
         [NoAdjustments EXCEPT !.goals_against = r],
         [NoAdjustments EXCEPT !.goal_diff = r],
         [NoAdjustments EXCEPT !.goals = r, !.goal_diff = z],
         [points |-> z, goals |-> r, goals_against |-> z, goal_diff |-> r],
         PenaltyOnLast(n_teams)}

InitTable ==
    /\ \E n_teams \in 2..3 :
          \E ms \in TableMatchLists(n_teams), a \in TableAdjustments(n_teams) :
             tab = [pc |-> "call", matches |-> ms, number_teams |-> n_teams,
                    adj |-> a, table |-> Idle]
    /\ season = Idle /\ params = Idle /\ adj = Idle /\ entry = Idle
    /\ position_counts = Idle /\ mutex = Idle /\ pending = Idle
    /\ workers = Idle /\ main = Idle /\ walk = Idle /\ q = Idle /\ elo = Idle
    /\ api = Idle

CallTable ==
    /\ tab.pc = "call"
    /\ tab' = [tab EXCEPT
                 !.pc = "done",
                 !.table = calculate_table(tab.matches, tab.number_teams, tab.adj.points,
                                           tab.adj.goals, tab.adj.goals_against,
                                           tab.adj.goal_diff)]
    /\ UNCHANGED <<DriverVars, walk, q, elo, api>>

NextTable == CallTable

SpecTable == InitTable /\ [][NextTable]_vars

----------------------------------------------------------------------------
(* Spec: run_monte_carlo_simulation / run_monte_carlo_with_adjustments,     *)
(* called twice on the same inputs by one caller                            *)

MaxIterations == 2     \* params.iterations in 0..MaxIterations
MaxWorkers == 2        \* threads of the rayon pool in 1..MaxWorkers

DriverSeasons == {SeasonDeterministic, SeasonAllPlayed, SeasonEqualTeams, SeasonMixed}

Names2 == (0 :> TeamName("A") @@ 1 :> TeamName("B"))
Names3 == (0 :> TeamName("Team A") @@ 1 :> TeamName("Team B") @@ 2 :> TeamName("Team C"))

IdleWorker == [pc |-> "idle", iteration |-> 0, table |-> <<>>, k |-> 0, tmp |-> 0]

DriverAdjustments(n_teams) == {NoAdjustments, PenaltyOnLast(n_teams)}

\* the four scalars process_season receives from params
Scalars(P) == [mod_factor |-> P.mod_factor, home_advantage |-> P.home_advantage,
               tore_slope |-> P.tore_slope, tore_intercept |-> P.tore_intercept]

MaxSeedUsed == IF MaxIterations > MaxWorkers THEN MaxIterations ELSE MaxWorkers

\* process_season is a pure function of its arguments: its values on the
\* arguments the closure can pass are computed once and looked up by the trials
SeasonOutcomes ==
    LET keys == {<<s, sc, a, seed>> : s \in DriverSeasons,
                                      sc \in {Scalars(DefaultParams(0))},
                                      a \in UNION {DriverAdjustments(n) : n \in 2..3},
                                      seed \in 0..MaxSeedUsed}
        good == {k \in keys : k[3] \in DriverAdjustments(k[1].number_teams)}
    IN  [k \in good |->
           process_season(k[1], k[2], k[3].points, k[3].goals, k[3].goals_against,
                          k[3].goal_diff, seed_from_u64(k[4]))] @@ <<>>

\* the closure's call of process_season with the generator seeded from `seed`
RunTrial(s, P, a, seed) == SeasonOutcomes[<<s, Scalars(P), a, seed>>]

ZeroCounts(n_teams) == [t \in 0..(n_teams - 1) |-> [pos \in 0..(n_teams - 1) |-> 0]]

Init ==
    /\ season \in DriverSeasons
    /\ \E n \in 0..MaxIterations : params = DefaultParams(n)
    /\ \E fn \in {"plain", "adjusted", "simulate_league"} :
          entry = [fn |-> fn,
                   team_names |-> IF season.number_teams = 2 THEN Names2 ELSE Names3]
    \* the vectors the caller supplies: none to the plain entry, the arguments
    \* of the adjusted entry, the adj_* fields of a request that carries them
    /\ adj \in IF entry.fn = "plain" THEN {NoAdjustments}
               ELSE IF entry.fn = "adjusted"
               THEN {NoAdjustments, PenaltyOnLast(season.number_teams)}
               ELSE {PenaltyOnLast(season.number_teams)}
    /\ position_counts = ZeroCounts(season.number_teams)
    /\ mutex = [t \in 0..(season.number_teams - 1) |-> 0]
    /\ pending = 0..(params.iterations - 1)
    /\ \E n \in 1..MaxWorkers : workers = [w \in 1..n |-> IdleWorker]
    /\ main = [pc |-> "par", run |-> 1, result |-> Idle, first |-> Idle]
    /\ walk = Idle /\ q = Idle /\ elo = Idle /\ tab = Idle /\ api = Idle

\* a worker takes an iteration of the range and runs the closure up to the tally loop
StartIteration(w, i) ==
    /\ main.pc = "par"
    /\ workers[w].pc = "idle"
    /\ i \in pending
    /\ LET a == PassedAdjustments(entry, adj)
           r == RunTrial(season, params, a, TrialSeed(i, w))
       IN  /\ workers' = [workers EXCEPT ![w] =
                 [pc |-> IF r.table.standings = <<>> THEN "idle" ELSE "lock",
                  iteration |-> i, table |-> r.table.standings, k |-> 1, tmp |-> 0]]
           /\ season' = r.season
    /\ pending' = pending \ {i}
    /\ UNCHANGED <<params, adj, entry, position_counts, mutex, main, walk, q, elo, tab, api>>

\* position_counts[team_id].lock().unwrap()
LockRow(w) ==
    /\ workers[w].pc = "lock"
    /\ LET row == workers[w].table[workers[w].k].team_id
       IN  /\ MutexFree(mutex, row)
           /\ mutex' = [mutex EXCEPT ![row] = w]
    /\ workers' = [workers EXCEPT ![w].pc = "read"]
    /\ UNCHANGED <<season, params, adj, entry, position_counts, pending, main,
                   walk, q, elo, tab, api>>

\* counts[position] += 1, the load
ReadCount(w) ==
    /\ workers[w].pc = "read"
    /\ LET st == workers[w].table[workers[w].k]
       IN  workers' = [workers EXCEPT
                         ![w].pc = "write",
                         ![w].tmp = position_counts[st.team_id][st.position - 1]]
    /\ UNCHANGED <<season, params, adj, entry, position_counts, mutex, pending, main,
                   walk, q, elo, tab, api>>

WriteCountKeepsLock(w) ==
    /\ workers[w].pc = "write"
    /\ LET st == workers[w].table[workers[w].k]
       IN  position_counts' = [position_counts EXCEPT
                                 ![st.team_id][st.position - 1] = workers[w].tmp + 1]
    /\ workers' = [workers EXCEPT
                     ![w].k = @ + 1,
                     ![w].pc = IF workers[w].k + 1 > Len(workers[w].table)
                               THEN "idle" ELSE "lock"]
    /\ UNCHANGED <<season, params, adj, entry, mutex, pending, main, walk, q, elo, tab, api>>

\* counts[position] += 1, the store; the guard is dropped at the end of the loop body
WriteCount(w) ==
    /\ workers[w].pc = "write"
    /\ LET st == workers[w].table[workers[w].k]
       IN  /\ position_counts' = [position_counts EXCEPT
                                    ![st.team_id][st.position - 1] = workers[w].tmp + 1]
           /\ mutex' = [mutex EXCEPT ![st.team_id] = 0]
    /\ workers' = [workers EXCEPT
                     ![w].k = @ + 1,
                     ![w].pc = IF workers[w].k + 1 > Len(workers[w].table)
                               THEN "idle" ELSE "lock"]
    /\ UNCHANGED <<season, params, adj, entry, pending, main, walk, q, elo, tab, api>>

FinishEarly ==
    /\ main.pc = "par"
    /\ main' = IF SortPanics(season.number_teams, params.iterations)
               THEN [main EXCEPT !.pc = "panicked"]
               ELSE [main EXCEPT
                       !.pc = "done",
                       !.result = BuildResult(position_counts, season.number_teams,
                                              params.iterations, entry.team_names)]
    /\ UNCHANGED <<season, params, adj, entry, position_counts, mutex, pending,
                   workers, walk, q, elo, tab, api>>

\* for_each returns when every iteration has run; lines 46-86 build the result
Finish ==
    /\ main.pc = "par"
    /\ pending = {}
    /\ \A w \in DOMAIN workers : workers[w].pc = "idle"
    /\ main' = IF SortPanics(season.number_teams, params.iterations)
               THEN [main EXCEPT !.pc = "panicked"]
               ELSE [main EXCEPT
                       !.pc = "done",
                       !.result = BuildResult(position_counts, season.number_teams,
                                              params.iterations, entry.team_names)]
    /\ UNCHANGED <<season, params, adj, entry, position_counts, mutex, pending,
                   workers, walk, q, elo, tab, api>>

\* the caller keeps the first result and calls again with the same arguments
CallAgain ==
    /\ main.pc = "done"
    /\ main.run = 1
    /\ main' = [pc |-> "par", run |-> 2, result |-> Idle, first |-> main.result]
    /\ position_counts' = ZeroCounts(season.number_teams)
    /\ mutex' = [t \in 0..(season.number_teams - 1) |-> 0]
    /\ pending' = 0..(params.iterations - 1)
    /\ UNCHANGED <<season, params, adj, entry, workers, walk, q, elo, tab, api>>

Next ==
    \/ \E w \in DOMAIN workers : \E i \in pending : StartIteration(w, i)
    \/ \E w \in DOMAIN workers : LockRow(w)
    \/ \E w \in DOMAIN workers : ReadCount(w)
    \/ \E w \in DOMAIN workers : WriteCount(w)
    \/ Finish
    \/ CallAgain

Spec == Init /\ [][Next]_vars

\* the steps of rayon worker thread w
WorkerStep(w) ==
    /\ w \in DOMAIN workers
    /\ \/ \E i \in pending : StartIteration(w, i)
       \/ LockRow(w)
       \/ ReadCount(w)
       \/ WriteCount(w)

\* run_monte_carlo_simulation on the unplayed test seasons under a fair
\* scheduler: a worker thread that can run does run, and the thread blocked in
\* for_each resumes once the pool has finished
InitFair ==
    /\ Init
    /\ entry.fn = "plain"
    /\ season \in {SeasonDeterministic, SeasonEqualTeams}

SpecFair ==
    /\ InitFair /\ [][Next]_vars
    /\ \A w \in 1..MaxWorkers : WF_vars(WorkerStep(w))
    /\ WF_vars(Finish)

----------------------------------------------------------------------------
(* SpecApi: one POST /simulate request handled by simulate_league.          *)
(* A usize is kept as an integer: a negative value v stands for 2^64 + v,   *)
(* the result of a wrapping cast or subtraction; it exceeds every length.   *)
(* The time_ms field of the response (wall clock) is left out.              *)

DefaultIterations == 10000     \* payload.iterations.unwrap_or(10000)

\* an Option<T> field of the request body
Some(x) == [some |-> TRUE, v |-> x]
Absent == [some |-> FALSE, v |-> 0]

\* Option<i32>::unwrap_or(0)
UnwrapOr0(cell) == IF cell.some THEN cell.v ELSE 0

\* variant: the index of the request is used as it is
ConvertIndexUnshifted(cell) == UnwrapOr0(cell)

\* row[k].unwrap_or(0) as usize - 1
ConvertIndex(cell) == UnwrapOr0(cell) - 1

\* `as usize - 1` on the value 0: "attempt to subtract with overflow" when the
\* build checks overflow, a wrap to usize::MAX when it does not
SubOverflows(cell) == UnwrapOr0(cell) = 0

\* goals_home: row[2], goals_away: row[3]: the Option<i32> as the field of Match
GoalField(cell) == IF cell.some THEN cell.v ELSE None

\* the closure of handlers.rs 93-100 on one schedule row
ConvertRow(row) ==
    Match(ConvertIndex(row[1]), ConvertIndex(row[2]), GoalField(row[3]), GoalField(row[4]))

\* handlers.rs 103-107: Season { matches, team_elos: elo_values.clone(), number_teams }
LeagueSeason(request) ==
    [matches |-> [k \in 1..Len(request.schedule) |-> ConvertRow(request.schedule[k])],
     team_elos |-> [t \in 0..(Len(request.elo_values) - 1) |-> request.elo_values[t + 1]],
     number_teams |-> Len(request.elo_values)]

\* handlers.rs 110-120: absent fields take the defaults of the handler
LeagueParams(request) ==
    DefaultParams(IF request.iterations.some THEN request.iterations.v
                  ELSE DefaultIterations)

\* format!("Team_{}", i + 1)
DefaultName(i) == [text |-> "Team_", number |-> i + 1]

\* handlers.rs 123-125: payload.team_names.unwrap_or_else(..)
LeagueNames(request) ==
    IF request.team_names.some THEN request.team_names.v
    ELSE [i \in 0..(Len(request.elo_values) - 1) |-> DefaultName(i)]

\* handlers.rs 83-90: the two checks of the handler
IsBadRequest(request) == request.schedule = <<>> \/ Len(request.elo_values) = 0

\* some index cell of the schedule makes the subtraction of line 95 or 96 overflow
ConversionOverflows(request) ==
    \E k \in 1..Len(request.schedule) :
       SubOverflows(request.schedule[k][1]) \/ SubOverflows(request.schedule[k][2])

\* elos[team_home], elos[team_away] in simulate_season: the index is checked
\* against the length of the rating vector, and a failed check panics
IndexOutOfBounds(s) ==
    \E k \in 1..Len(s.matches) :
       \/ s.matches[k].team_home \notin DOMAIN s.team_elos
       \/ s.matches[k].team_away \notin DOMAIN s.team_elos

\* the tally loop of monte_carlo/mod.rs 37-43 on one table
RECURSIVE TallyTable(_, _, _)
TallyTable(counts, table, k) ==
    IF k > Len(table) THEN counts
    ELSE TallyTable([counts EXCEPT ![table[k].team_id][table[k].position - 1] = @ + 1],
                    table, k + 1)

\* the body of the for_each closure for one iteration of a well-indexed season
TrialTally(s, P, counts, iteration) ==
    TallyTable(counts,
               RunTrial(s, P, NoAdjustments, TrialSeed(iteration, 1)).table.standings, 1)

\* the response body of a request that was simulated
OkResponse(result, P) ==
    [probability_matrix |-> result.probability_matrix,
     team_names |-> result.team_names,
     simulations_performed |-> P.iterations]

\* StatusCode::BAD_REQUEST, the status of Ok(Json(..)), StatusCode::INTERNAL_SERVER_ERROR
BadRequest == 400
StatusOk == 200
InternalServerError == 500

\* the requests: each test season as a well-formed body with 1-based indices,
\* and the same body with one index cell replaced, with an empty schedule or
\* with an empty rating vector
GoalCell(g) == IF g = None THEN Absent ELSE Some(g)

RequestRow(m) ==
    <<Some(m.team_home + 1), Some(m.team_away + 1), GoalCell(m.goals_home),
      GoalCell(m.goals_away)>>

RequestOf(s, names, iterations) ==
    [schedule |-> [k \in 1..Len(s.matches) |-> RequestRow(s.matches[k])],
     elo_values |-> [t \in 1..s.number_teams |-> s.team_elos[t - 1]],
     team_names |-> names,
     iterations |-> Some(iterations)]

\* null, 0, a negative index and an index above the number of teams
BadIndexCells(n_teams) == {Absent, Some(0), Some(-1), Some(n_teams + 1)}

Malformed(r) ==
    {[r EXCEPT !.schedule[k][c] = cell] :
        k \in 1..Len(r.schedule), c \in 1..2, cell \in BadIndexCells(Len(r.elo_values))}
    \cup {[r EXCEPT !.schedule = <<>>], [r EXCEPT !.elo_values = <<>>]}

WellFormed ==
    {RequestOf(s, names, n) :
        s \in DriverSeasons,
        names \in {Absent, Some(Names2), Some(Names3)},
        n \in 0..MaxIterations}

ApiRequests ==
    LET fitting == {r \in WellFormed :
                      r.team_names.some =>
                         DOMAIN r.team_names.v = 0..(Len(r.elo_values) - 1)}
    IN  fitting \cup UNION {Malformed(r) : r \in fitting}

InitApi ==
    /\ \E r \in ApiRequests, checks \in BOOLEAN :
          api = [pc |-> "received", request |-> r, overflow_checks |-> checks,
                 season |-> Idle, params |-> Idle, team_names |-> Idle,
                 pending |-> {}, counts |-> Idle, trials |-> 0,
                 status |-> 0, response |-> Idle]
    /\ season = Idle /\ params = Idle /\ adj = Idle /\ entry = Idle
    /\ position_counts = Idle /\ mutex = Idle /\ pending = Idle
    /\ workers = Idle /\ main = Idle /\ walk = Idle /\ q = Idle /\ elo = Idle
    /\ tab = Idle

\* handlers.rs 83-90
Validate ==
    /\ api.pc = "received"
    /\ api' = IF IsBadRequest(api.request)
              THEN [api EXCEPT !.pc = "responded", !.status = BadRequest]
              ELSE [api EXCEPT !.pc = "convert"]
    /\ UNCHANGED <<DriverVars, walk, q, elo, tab>>

\* handlers.rs 93-125 and the entry of run_monte_carlo_simulation (lines 15-18)
Convert ==
    /\ api.pc = "convert"
    /\ api' = IF api.overflow_checks /\ ConversionOverflows(api.request)
              THEN [api EXCEPT !.pc = "panicked"]
              ELSE [api EXCEPT
                      !.pc = "core",
                      !.season = LeagueSeason(api.request),
                      !.params = LeagueParams(api.request),
                      !.team_names = LeagueNames(api.request),
                      !.pending = 0..(LeagueParams(api.request).iterations - 1),
                      !.counts = ZeroCounts(Len(api.request.elo_values))]
    /\ UNCHANGED <<DriverVars, walk, q, elo, tab>>

\* one iteration of the for_each closure (monte_carlo/mod.rs 21-44); the
\* interleaving of the tally loops is the subject of Spec
Trial(i) ==
    /\ api.pc = "core"
    /\ i \in api.pending
    /\ api' = IF IndexOutOfBounds(api.season)
              THEN [api EXCEPT !.pc = "panicked", !.trials = @ + 1]
              ELSE [api EXCEPT
                      !.trials = @ + 1,
                      !.pending = @ \ {i},
                      !.counts = TrialTally(api.season, api.params, @, i)]
    /\ UNCHANGED <<DriverVars, walk, q, elo, tab>>

\* monte_carlo/mod.rs 46-86 and handlers.rs 130-137
Return ==
    /\ api.pc = "core"
    /\ api.pending = {}
    /\ api' = IF SortPanics(api.season.number_teams, api.params.iterations)
              THEN [api EXCEPT !.pc = "panicked"]
              ELSE [api EXCEPT
                      !.pc = "responded",
                      !.status = StatusOk,
                      !.response =
                         OkResponse(BuildResult(api.counts, api.season.number_teams,
                                                api.params.iterations, api.team_names),
                                    api.params)]
    /\ UNCHANGED <<DriverVars, walk, q, elo, tab>>

NextApi ==
    \/ Validate
    \/ Convert
    \/ \E i \in api.pending : Trial(i)
    \/ Return

SpecApi == InitApi /\ [][NextApi]_vars

----------------------------------------------------------------------------

(* SpecBatch: one POST /simulate/batch request handled by simulate_batch;   *)
(* every league is a tokio task that runs simulate_league to its end        *)

MaxLeagues == 2        \* payload.leagues has 0..MaxLeagues entries

\* the trials of run_monte_carlo_simulation, tallied one after the other
RECURSIVE TallyTrials(_, _, _, _)
TallyTrials(s, P, counts, iteration) ==
    IF iteration >= P.iterations THEN counts
    ELSE TallyTrials(s, P, TrialTally(s, P, counts, iteration), iteration + 1)

\* simulate_league from the request to its outcome: Err(status), Ok(response)
\* or a panic of the task that runs it
simulate_league(request, checks) ==
    LET s == LeagueSeason(request)
        P == LeagueParams(request)
    IN  IF IsBadRequest(request) THEN [kind |-> "err", status |-> BadRequest]
        ELSE IF checks /\ ConversionOverflows(request) THEN [kind |-> "panic"]
        ELSE IF P.iterations >= 1 /\ IndexOutOfBounds(s) THEN [kind |-> "panic"]
        ELSE IF SortPanics(s.number_teams, P.iterations) THEN [kind |-> "panic"]
        ELSE [kind |-> "ok",
              response |->
                 OkResponse(BuildResult(TallyTrials(s, P, ZeroCounts(s.number_teams), 0),
                                        s.number_teams, P.iterations,
                                        LeagueNames(request)), P)]

\* handlers.rs 203-208: the response that stands for a rejected request
EmptyResponse ==
    [probability_matrix |-> <<>>, team_names |-> <<>>, simulations_performed |-> 0]

simulate_league_internal(request, checks) ==
    LET outcome == simulate_league(request, checks)
    IN  IF outcome.kind = "err" THEN [kind |-> "ok", response |-> EmptyResponse]
        ELSE outcome

\* league.name
LeagueLabels == {"bundesliga", "liga3"}

\* a well-formed request per season size, a rejected one and two that panic
BatchRequests ==
    {RequestOf(SeasonDeterministic, Absent, 1),
     RequestOf(SeasonMixed, Some(Names3), 1),
     [RequestOf(SeasonDeterministic, Absent, 1) EXCEPT !.schedule = <<>>],
     [RequestOf(SeasonDeterministic, Absent, 1) EXCEPT !.schedule[1][2] = Some(3)],
     RequestOf(SeasonDeterministic, Absent, 0)}

LeagueRequest(name, request) == [name |-> name, request |-> request]

BatchLeagues ==
    UNION {[1..n -> {LeagueRequest(name, r) : name \in LeagueLabels, r \in BatchRequests}] :
             n \in 0..MaxLeagues}

InitBatch ==
    /\ \E leagues \in BatchLeagues, checks \in BOOLEAN :
          api = [pc |-> "received", leagues |-> leagues, overflow_checks |-> checks,
                 tasks |-> <<>>, next |-> 0, results |-> <<>>, finished |-> <<>>,
                 status |-> 0, response |-> Idle]
    /\ season = Idle /\ params = Idle /\ adj = Idle /\ entry = Idle
    /\ position_counts = Idle /\ mutex = Idle /\ pending = Idle
    /\ workers = Idle /\ main = Idle /\ walk = Idle /\ q = Idle /\ elo = Idle
    /\ tab = Idle

\* handlers.rs 168-176: one task per league is spawned before any is awaited
SpawnTasks ==
    /\ api.pc = "received"
    /\ api' = [api EXCEPT
                 !.pc = "collect",
                 !.next = 1,
                 !.tasks = [i \in 1..Len(api.leagues) |-> [state |-> "running"]]]
    /\ UNCHANGED <<DriverVars, walk, q, elo, tab>>

\* variant: the task labels its response with the name of the first league
TaskCompletesFirstName(i) ==
    /\ api.pc # "received"
    /\ i \in 1..Len(api.tasks)
    /\ api.tasks[i].state = "running"
    /\ LET outcome == simulate_league_internal(api.leagues[i].request, api.overflow_checks)
       IN  api' = [api EXCEPT
                     !.finished = Append(@, i),
                     !.tasks[i] =
                        IF outcome.kind = "panic" THEN [state |-> "panicked"]
                        ELSE [state |-> "finished", name |-> api.leagues[1].name,
                              response |-> outcome.response]]
    /\ UNCHANGED <<DriverVars, walk, q, elo, tab>>

\* handlers.rs 172-175: a task runs to its end at any time after it was spawned,
\* also after the handler has answered; `finished` records the order of completion
TaskCompletes(i) ==
    /\ api.pc # "received"
    /\ i \in 1..Len(api.tasks)
    /\ api.tasks[i].state = "running"
    /\ LET outcome == simulate_league_internal(api.leagues[i].request, api.overflow_checks)
       IN  api' = [api EXCEPT
                     !.finished = Append(@, i),
                     !.tasks[i] =
                        IF outcome.kind = "panic" THEN [state |-> "panicked"]
                        ELSE [state |-> "finished", name |-> api.leagues[i].name,
                              response |-> outcome.response]]
    /\ UNCHANGED <<DriverVars, walk, q, elo, tab>>

\* handlers.rs 179-189: task.await on the tasks in the order they were spawned
AwaitTask ==
    /\ api.pc = "collect"
    /\ api.next <= Len(api.tasks)
    /\ api.tasks[api.next].state # "running"
    /\ api' = IF api.tasks[api.next].state = "panicked"
              THEN [api EXCEPT !.pc = "responded", !.status = InternalServerError]
              ELSE [api EXCEPT
                      !.next = @ + 1,
                      !.results = Append(@, [name |-> api.tasks[api.next].name,
                                             response |-> api.tasks[api.next].response])]
    /\ UNCHANGED <<DriverVars, walk, q, elo, tab>>

\* handlers.rs 191-196
RespondBatch ==
    /\ api.pc = "collect"
    /\ api.next > Len(api.tasks)
    /\ api' = [api EXCEPT
                 !.pc = "responded",
                 !.status = StatusOk,
                 !.response = [results |-> api.results]]
    /\ UNCHANGED <<DriverVars, walk, q, elo, tab>>

NextBatch ==
    \/ SpawnTasks
    \/ \E i \in 1..Len(api.tasks) : TaskCompletes(i)
    \/ AwaitTask
    \/ RespondBatch

SpecBatch == InitBatch /\ [][NextBatch]_vars

----------------------------------------------------------------------------

(* Properties of the driver (Spec) *)

N == params.iterations
NTeams == season.number_teams
Teams == 0..(NTeams - 1)

Unplayed(s) == {k \in 1..Len(s.matches) : s.matches[k].goals_home = None}

\* the table of trial i, computed sequentially from (Season, Params, i) alone
TrialTable(i) ==
    RunTrial(season, params, PassedAdjustments(entry, adj), i).table.standings

\* the number of trials of 0..N-1 whose table has team t at position pos + 1
ExpectedCount(t, pos) ==
    Cardinality({i \in 0..(N - 1) :
                   \E k \in 1..Len(TrialTable(i)) :
                      /\ TrialTable(i)[k].team_id = t
                      /\ TrialTable(i)[k].position = pos + 1})

ExpectedCounts == [t \in Teams |-> [pos \in Teams |-> ExpectedCount(t, pos)]]

TwoWorkersTwoTrials == Cardinality(DOMAIN workers) >= 2 /\ N >= 2

\* C1: for fixed (Season, Params, N) the histogram at the end of a run is the
\* sum of the per-trial tables, each a function of the trial index alone,
\* whatever the interleaving and the number of workers; the matrix built from
\* it is therefore the same, and a second run returns the matrix of the first.
C1_Deterministic ==
    /\ \A w \in DOMAIN workers :
          workers[w].pc # "idle" => workers[w].table = TrialTable(workers[w].iteration)
    /\ main.pc = "done" =>
          /\ position_counts = ExpectedCounts
          /\ main.result = BuildResult(ExpectedCounts, NTeams, N, entry.team_names)
          /\ main.run = 2 => main.result = main.first

C1_Witness ==
    /\ main.pc = "done" /\ main.run = 2
    /\ TwoWorkersTwoTrials
    /\ TrialTable(0) # TrialTable(1)

RowSum(matrix, t) == SumTo(matrix[t], NTeams - 1)
ColumnSum(matrix, pos) == SumTo([t \in Teams |-> matrix[t][pos]], NTeams - 1)

\* a sum of NTeams probabilities, each rounded down to the grid, is 1
IsOne(x) == Micro - NTeams < x /\ x <= Micro

\* C2: after the N >= 1 trials of either entry point every team's row of
\* counts sums to N, and every row of the probability matrix sums to 1.
C2_RowsSumToN ==
    (main.pc = "done" /\ N >= 1) =>
        /\ \A t \in Teams : RowSum(position_counts, t) = N
        /\ \A i \in Teams : IsOne(RowSum(main.result.probability_matrix, i))

C2_Witness ==
    /\ main.pc = "done" /\ entry.fn = "adjusted" /\ TwoWorkersTwoTrials
    /\ \A t \in Teams : RowSum(position_counts, t) = N

\* the positions of a table are 1..T, each held by exactly one team
IsRanking(table) ==
    /\ Len(table) = NTeams
    /\ \A pos \in 1..NTeams :
          Cardinality({k \in 1..Len(table) : table[k].position = pos}) = 1
    /\ \A t \in Teams :
          Cardinality({k \in 1..Len(table) : table[k].team_id = t}) = 1

\* C3: in every trial each position 1..T is held by exactly one team, so after
\* N >= 1 trials every column of the histogram sums to N and every column of
\* the probability matrix sums to 1.
C3_ColumnsSumToN ==
    /\ \A w \in DOMAIN workers : workers[w].pc # "idle" => IsRanking(workers[w].table)
    /\ (main.pc = "done" /\ N >= 1) =>
          /\ \A pos \in Teams : ColumnSum(position_counts, pos) = N
          /\ \A pos \in Teams : IsOne(ColumnSum(main.result.probability_matrix, pos))

C3_Witness ==
    /\ main.pc = "done" /\ TwoWorkersTwoTrials /\ NTeams = 3
    /\ \A pos \in Teams : ColumnSum(position_counts, pos) = N

\* C4: when every match of the Season has goals all trials build the same
\* table, and every row of the result has one entry 1.0 and all others 0.0.
C4_AllPlayedCollapse ==
    (Unplayed(season) = {} /\ N >= 1) =>
        /\ \A w \in DOMAIN workers :
              workers[w].pc # "idle" => workers[w].table = TrialTable(0)
        /\ main.pc = "done" =>
              \A i \in Teams :
                 LET row == main.result.probability_matrix[i]
                 IN  /\ Cardinality({pos \in Teams : row[pos] = Micro}) = 1
                     /\ Cardinality({pos \in Teams : row[pos] = 0}) = NTeams - 1

C4_Witness ==
    /\ main.pc = "done" /\ Unplayed(season) = {} /\ TwoWorkersTwoTrials
    /\ main.result.probability_matrix[0][0] = Micro

\* C8: no step of any trial, sequential or parallel, changes the Season: its
\* match list (unplayed matches included) and its ratings stay as given.
C8_SeasonNotMutated == [][season' = season]_vars

C8_Witness ==
    /\ main.pc = "done" /\ TwoWorkersTwoTrials
    /\ Unplayed(season) # {}
    /\ season \in DriverSeasons

----------------------------------------------------------------------------
(* Properties of the Poisson quantile (SpecQ) *)

\* r is the smallest k with CDF(k) >= p
IsQuantile(r, p, lambda) ==
    /\ ~r.inf /\ ~r.panic /\ r.k >= 0
    /\ PoissonCdf(r.k, lambda) >= p
    /\ r.k > 0 => PoissonCdf(r.k - 1, lambda) < p

\* at a step of the CDF: p = CDF(k) gives k, the next p above gives k + 1
AtBoundary(r, p, lambda) ==
    \A k \in 0..QMaxK :
       /\ (p = PoissonCdf(k, lambda) /\ (k = 0 \/ PoissonCdf(k - 1, lambda) < p))
             => r.k = k
       /\ (p = PoissonCdf(k, lambda) + 1 /\ PoissonCdf(k + 1, lambda) >= p)
             => r.k = k + 1

\* C5: for p in (0,1) and lambda > 0 both binary searches return the smallest
\* k with CDF(k) >= p, the comparison being non-strict.
C5_SmallestK ==
    (0 < q.p /\ q.p < Micro /\ q.lambda > 0) =>
        /\ q.statrs # NotCalled =>
              IsQuantile(q.statrs, q.p, q.lambda) /\ AtBoundary(q.statrs, q.p, q.lambda)
        /\ q.fixed # NotCalled =>
              IsQuantile(q.fixed, q.p, q.lambda) /\ AtBoundary(q.fixed, q.p, q.lambda)

C5_Witness ==
    /\ q.statrs # NotCalled /\ q.fixed # NotCalled
    /\ q.lambda > 0 /\ q.p < Micro
    /\ q.p = PoissonCdf(1, q.lambda)
    /\ PoissonCdf(0, q.lambda) < q.p
    /\ q.statrs.k = 1 /\ q.fixed.k = 1

\* C6: p <= 0 gives 0 and p >= 1 gives +infinity for any lambda, also one for
\* which the search itself would fail.
C6_Boundaries ==
    \A r \in {q.statrs, q.fixed, q.direct} :
       r # NotCalled =>
          /\ q.p <= 0 => r = Finite(0)
          /\ q.p >= Micro => r = Infinity

C6_Witness ==
    /\ q.p >= Micro /\ q.lambda <= 0
    /\ q.statrs = Infinity /\ q.fixed = Infinity /\ q.direct = Infinity

\* C29: for every p in (0,1) and every lambda > 0 the iterative
\* poisson_quantile_direct and the binary-search poisson_quantile_statrs_fixed
\* return the same k.
C29_QuantilesAgree ==
    (0 < q.p /\ q.p < Micro /\ q.lambda > 0
       /\ q.fixed # NotCalled /\ q.direct # NotCalled) =>
        q.direct = q.fixed

----------------------------------------------------------------------------
(* Properties of the rating update (SpecElo) *)

\* C7: the shift of the home rating and the shift of the away rating sum to
\* zero, so the sum of the two ratings is conserved.
C7_Conservation ==
    elo.pc = "returned" =>
        /\ (elo.result.new_elo_home - elo.params.elo_home)
           + (elo.result.new_elo_away - elo.params.elo_away) = 0
        /\ elo.result.new_elo_home + elo.result.new_elo_away
           = elo.params.elo_home + elo.params.elo_away

C7_Witness ==
    /\ elo.pc = "returned"
    /\ elo.params.goals_home > elo.params.goals_away
    /\ elo.result.new_elo_home > elo.params.elo_home
    /\ elo.result.new_elo_away < elo.params.elo_away

----------------------------------------------------------------------------
(* Properties of the season walk (SpecWalk) *)

StoredMatch(m, P, elo_home, elo_away) ==
    [elo_home |-> elo_home, elo_away |-> elo_away,
     goals_home |-> m.goals_home, goals_away |-> m.goals_away,
     mod_factor |-> P.mod_factor, home_advantage |-> P.home_advantage]

\* the ratings after the updates of the first n matches of the list, in order
RECURSIVE RatingsAfter(_, _, _, _)
RatingsAfter(matches, n, elos0, P) ==
    IF n = 0 THEN elos0
    ELSE LET e == RatingsAfter(matches, n - 1, elos0, P)
             m == matches[n]
             r == calculate_elo_change(
                      StoredMatch(m, P, e[m.team_home], e[m.team_away]))
         IN  [t \in DOMAIN e |->
                IF t = m.team_away THEN r.new_elo_away
                ELSE IF t = m.team_home THEN r.new_elo_home
                ELSE e[t]]

\* C9: the matches are processed in fixture order, and match k is evaluated
\* with the ratings left by the matches before it: they are what the loop
\* reads, what the simulated goals are drawn from, and the running ratings
\* are those after all processed matches.
C9_RatingsInOrder ==
    /\ Len(walk.fed) = walk.idx - 1
    /\ walk.elos = RatingsAfter(walk.matches, walk.idx - 1, season.team_elos, params)
    /\ \A k \in walk.idx..Len(walk.matches) : walk.matches[k] = season.matches[k]
    /\ \A k \in 1..Len(walk.fed) :
          LET e == RatingsAfter(walk.matches, k - 1, season.team_elos, params)
              m == walk.matches[k]
              f == walk.fed[k]
          IN  /\ f.elo_home = e[m.team_home]
              /\ f.elo_away = e[m.team_away]
              /\ f.simulated =>
                    LET sim == simulate_match(e[m.team_home], e[m.team_away],
                                              params.mod_factor, params.home_advantage,
                                              params.tore_slope, params.tore_intercept,
                                              f.random_home, f.random_away)
                    IN  m.goals_home = sim.goals_home /\ m.goals_away = sim.goals_away

C9_Witness ==
    /\ WalkDone(walk)
    /\ \E k \in 2..Len(walk.fed) :
          /\ walk.fed[k].simulated
          /\ walk.fed[k].elo_home # season.team_elos[walk.matches[k].team_home]
          /\ walk.fed[k].elo_away # season.team_elos[walk.matches[k].team_away]

\* the n-th output of the generator the walk was given, n >= 1
RECURSIVE NthDraw(_, _)
NthDraw(rng, n) == IF n = 1 THEN gen_f64(rng).value ELSE NthDraw(gen_f64(rng).rng, n - 1)

SimulatedUpTo(fed, k) == Cardinality({j \in 1..k : fed[j].simulated})

HomeMean(f, P) ==
    GoalAverage(f.elo_home + P.home_advantage - f.elo_away, P.tore_slope,
                P.tore_intercept)

AwayMean(f, P) ==
    GoalAverage(-(f.elo_home + P.home_advantage - f.elo_away), P.tore_slope,
                P.tore_intercept)

\* C10: the generator is advanced twice per unplayed match and never for a
\* played one; the j-th simulated match takes draws 2j-1 and 2j, the first
\* for the home goals and the second for the away goals; a walk over U
\* unplayed matches draws 2U uniforms.
C10_TwoDrawsPerUnplayed ==
    /\ walk.rng.n = 2 * SimulatedUpTo(walk.fed, Len(walk.fed))
    /\ WalkDone(walk) => walk.rng.n = 2 * Cardinality(Unplayed(season))
    /\ \A k \in 1..Len(walk.fed) :
          LET f == walk.fed[k]
              j == SimulatedUpTo(walk.fed, k)
          IN  /\ f.simulated <=> season.matches[k].goals_home = None
              /\ f.simulated =>
                    /\ f.random_home = NthDraw(walk.rng0, 2 * j - 1)
                    /\ f.random_away = NthDraw(walk.rng0, 2 * j)
                    /\ walk.matches[k].goals_home
                       = AsI32(poisson_quantile(f.random_home, HomeMean(f, params)))
                    /\ walk.matches[k].goals_away
                       = AsI32(poisson_quantile(f.random_away, AwayMean(f, params)))

C10_Witness ==
    /\ WalkDone(walk)
    /\ walk.rng.n >= 4
    /\ \E k \in 1..Len(walk.fed) : ~walk.fed[k].simulated

\* C11: in the match list of the walk every processed match has both goals;
\* a match that had goals keeps them, is not simulated, and still moves the
\* two ratings by calculate_elo_change on the stored goals; a match without
\* goals, and only such a match, receives simulated goals.
C11_StoredGoalsKept ==
    /\ Len(walk.matches) = Len(season.matches)
    /\ \A k \in 1..(walk.idx - 1) :
          LET m == walk.matches[k]
              s == season.matches[k]
              f == walk.fed[k]
          IN  /\ m.goals_home # None /\ m.goals_away # None
              /\ m.goals_home >= 0 /\ m.goals_away >= 0
              /\ m.team_home = s.team_home /\ m.team_away = s.team_away
              /\ s.goals_home # None => m = s /\ ~f.simulated
              /\ s.goals_home = None => f.simulated
    /\ walk.idx > 1 /\ ~walk.fed[walk.idx - 1].simulated =>
          LET s == season.matches[walk.idx - 1]
              f == walk.fed[walk.idx - 1]
              res == calculate_elo_change(StoredMatch(s, params, f.elo_home, f.elo_away))
          IN  /\ walk.elos[s.team_home] = res.new_elo_home
              /\ walk.elos[s.team_away] = res.new_elo_away

C11_Witness ==
    /\ WalkDone(walk)
    /\ \E k \in 1..Len(walk.fed) :
          /\ ~walk.fed[k].simulated
          /\ walk.matches[k].goals_home > walk.matches[k].goals_away
          /\ RatingsAfter(walk.matches, k, season.team_elos, params)
                [walk.matches[k].team_home] > walk.fed[k].elo_home
    /\ \E j \in 1..Len(walk.fed) :
          walk.fed[j].simulated /\ walk.matches[j].goals_home + walk.matches[j].goals_away > 0

----------------------------------------------------------------------------
(* Rating total along the season walk (SpecWalk) *)

\* the total of a rating vector
RatingSum(elos) == SumTo(elos, season.number_teams - 1)

\* the two teams of the match the next step of the walk processes
TeamsOfNextMatch ==
    {walk.matches[walk.idx].team_home, walk.matches[walk.idx].team_away}

----------------------------------------------------------------------------

(* Properties of the table builder (SpecTable) *)

\* the indices of the played matches of a list
PlayedMatches(ms) == {k \in 1..Len(ms) : ms[k].goals_home # None /\ ms[k].goals_away # None}

\* the played matches of team t
MatchesOf(ms, t) == {k \in PlayedMatches(ms) : t \in {ms[k].team_home, ms[k].team_away}}

TableReturned == tab.pc = "done"

Rows == tab.table.standings

\* C12: for every team played = won + drawn + lost, and played is the number
\* of played matches with the team at home or away, whatever the adjustments.
C12_PlayedIsWonDrawnLost ==
    TableReturned =>
       \A k \in DOMAIN Rows :
          /\ Rows[k].played = Rows[k].won + Rows[k].drawn + Rows[k].lost
          /\ Rows[k].played = Cardinality(MatchesOf(tab.matches, Rows[k].team_id))

C12_Witness ==
    /\ TableReturned
    /\ tab.adj.points.some /\ tab.adj.goals.some
    /\ \E k \in DOMAIN Rows : Rows[k].played = 2 /\ Rows[k].won = 1 /\ Rows[k].drawn = 1
    /\ PlayedMatches(tab.matches) # 1..Len(tab.matches)

RECURSIVE SumGoalsFor(_, _)
SumGoalsFor(rows, k) == IF k = 0 THEN 0 ELSE rows[k].goals_for + SumGoalsFor(rows, k - 1)

RECURSIVE SumGoalsAgainst(_, _)
SumGoalsAgainst(rows, k) ==
    IF k = 0 THEN 0 ELSE rows[k].goals_against + SumGoalsAgainst(rows, k - 1)

\* the goals scored in the played matches among the first k of the list
RECURSIVE TotalGoals(_, _)
TotalGoals(ms, k) ==
    IF k = 0 THEN 0
    ELSE TotalGoals(ms, k - 1)
         + (IF k \in PlayedMatches(ms) THEN ms[k].goals_home + ms[k].goals_away ELSE 0)

NoGoalAdjustments ==
    \A t \in 0..(tab.number_teams - 1) :
       AdjAt(tab.adj.goals, t) = 0 /\ AdjAt(tab.adj.goals_against, t) = 0

\* C13: without goal adjustments the goals_for of all teams, the goals_against
\* of all teams and the goals scored in the played matches have the same sum.
C13_GoalsBalance ==
    TableReturned /\ NoGoalAdjustments =>
       /\ SumGoalsFor(Rows, Len(Rows)) = TotalGoals(tab.matches, Len(tab.matches))
       /\ SumGoalsAgainst(Rows, Len(Rows)) = TotalGoals(tab.matches, Len(tab.matches))

C13_Witness ==
    /\ TableReturned /\ NoGoalAdjustments
    /\ tab.number_teams = 3
    /\ SumGoalsFor(Rows, Len(Rows)) >= 3
    /\ \E k \in DOMAIN Rows : Rows[k].goals_for # Rows[k].goals_against

\* C14, as stated: with no adj_goal_diff every team's goal_difference is its
\* goals_for minus its goals_against, also when adj_goals or adj_goals_against
\* are supplied.
C14_DiffIsForMinusAgainst ==
    TableReturned /\ ~tab.adj.goal_diff.some =>
       \A k \in DOMAIN Rows :
          Rows[k].goal_difference = Rows[k].goals_for - Rows[k].goals_against

\* C14, amended: with no adj_goal_diff every team's goal_difference is the
\* goals it scored minus the goals it conceded in the played matches, that is
\* goals_for and goals_against each less its own adjustment; it is goals_for
\* minus goals_against when the two goal adjustments of the team are equal.
C14_DiffIsMatchGoals ==
    TableReturned /\ ~tab.adj.goal_diff.some =>
       \A k \in DOMAIN Rows :
          LET t == Rows[k].team_id
              scored == Rows[k].goals_for - AdjAt(tab.adj.goals, t)
              conceded == Rows[k].goals_against - AdjAt(tab.adj.goals_against, t)
          IN  /\ Rows[k].goal_difference = scored - conceded
              /\ AdjAt(tab.adj.goals, t) = AdjAt(tab.adj.goals_against, t) =>
                    Rows[k].goal_difference = Rows[k].goals_for - Rows[k].goals_against

C14_Witness ==
    /\ TableReturned /\ ~tab.adj.goal_diff.some
    /\ tab.adj.goals.some /\ ~tab.adj.goals_against.some
    /\ \E k \in DOMAIN Rows :
          /\ Rows[k].goal_difference = 1
          /\ Rows[k].goals_for - Rows[k].goals_against > 1

\* the three sort keys of a standing, most significant first
SortKey(st) == <<st.points, st.goal_difference, st.goals_for>>

\* key x ranks strictly above key y: larger on the first key that differs
KeyAbove(x, y) ==
    \E i \in 1..3 : x[i] > y[i] /\ \A j \in 1..(i - 1) : x[j] = y[j]

\* C15: the standings are ordered by points, then goal_difference, then
\* goals_for, each descending; standings equal on all three keys are in
\* ascending team-index order.
C15_SortOrder ==
    TableReturned =>
       \A j \in DOMAIN Rows : \A k \in DOMAIN Rows :
          j < k =>
             \/ KeyAbove(SortKey(Rows[j]), SortKey(Rows[k]))
             \/ /\ SortKey(Rows[j]) = SortKey(Rows[k])
                /\ Rows[j].team_id < Rows[k].team_id

C15_Witness ==
    /\ TableReturned /\ tab.number_teams = 3
    /\ Rows[1].points = Rows[2].points
    /\ Rows[1].goal_difference = Rows[2].goal_difference
    /\ Rows[1].goals_for > Rows[2].goals_for
    /\ Rows[1].team_id > Rows[2].team_id
    /\ SortKey(Rows[2]) = SortKey(Rows[3])

\* C16: the table holds exactly T standings, every team id of 0..T-1 once,
\* and the k-th standing has position k: the positions are 1..T without gap
\* or duplicate and position - 1 is a column of the histogram.
C16_PositionsOneToT ==
    TableReturned =>
       /\ Len(Rows) = tab.number_teams
       /\ {Rows[k].team_id : k \in DOMAIN Rows} = 0..(tab.number_teams - 1)
       /\ \A k \in DOMAIN Rows :
             /\ Rows[k].position = k
             /\ Rows[k].position - 1 \in 0..(tab.number_teams - 1)

C16_Witness ==
    /\ TableReturned /\ tab.number_teams = 3
    /\ Rows[1].team_id = 2 /\ Rows[3].team_id = 0
    /\ Rows[3].position = 3

\* the goals of team t, and of its opponent, in match m
GoalsOf(m, t) == IF m.team_home = t THEN m.goals_home ELSE m.goals_away
GoalsOfOpponent(m, t) == IF m.team_home = t THEN m.goals_away ELSE m.goals_home

\* C17: every played match gives its winner a win and 3 points, its loser a
\* loss and no point, and on equal goals both sides a draw and 1 point; the
\* points of a team are adj_points[team] (0 if absent) + 3 * won + drawn.
C17_ThreeOneZero ==
    TableReturned =>
       \A k \in DOMAIN Rows :
          LET t == Rows[k].team_id
              mine == MatchesOf(tab.matches, t)
              wins == {i \in mine : GoalsOf(tab.matches[i], t)
                                       > GoalsOfOpponent(tab.matches[i], t)}
              losses == {i \in mine : GoalsOf(tab.matches[i], t)
                                         < GoalsOfOpponent(tab.matches[i], t)}
              draws == {i \in mine : GoalsOf(tab.matches[i], t)
                                        = GoalsOfOpponent(tab.matches[i], t)}
          IN  /\ Rows[k].won = Cardinality(wins)
              /\ Rows[k].lost = Cardinality(losses)
              /\ Rows[k].drawn = Cardinality(draws)
              /\ Rows[k].points
                 = AdjAt(tab.adj.points, t) + 3 * Rows[k].won + Rows[k].drawn

C17_Witness ==
    /\ TableReturned
    /\ tab.adj = PenaltyOnLast(tab.number_teams)
    /\ \E k \in DOMAIN Rows :
          /\ Rows[k].team_id = tab.number_teams - 1
          /\ Rows[k].won = 1 /\ Rows[k].drawn = 1
          /\ Rows[k].points = 4 - Penalty
    /\ \E k \in DOMAIN Rows : Rows[k].lost = 1 /\ Rows[k].points = 0

\* a missing vector replaced by T zeros, and T zeros by a missing vector
Toggle(a, n_teams) ==
    IF ~a.some THEN SomeVec(Zeros(n_teams))
    ELSE IF a.v = Zeros(n_teams) THEN NoVec ELSE a

\* the table of the call with its adjustment arguments replaced by b
TableWith(b) ==
    calculate_table(tab.matches, tab.number_teams, b.points, b.goals, b.goals_against,
                    b.goal_diff)

\* C18: for each of the four vectors, None and T zeros give the same table.
C18_NoneIsZeros ==
    TableReturned =>
       LET a == tab.adj
           T == tab.number_teams
       IN  /\ tab.table = TableWith([a EXCEPT !.points = Toggle(@, T)])
           /\ tab.table = TableWith([a EXCEPT !.goals = Toggle(@, T)])
           /\ tab.table = TableWith([a EXCEPT !.goals_against = Toggle(@, T)])
           /\ tab.table = TableWith([a EXCEPT !.goal_diff = Toggle(@, T)])
           /\ tab.table = TableWith([points |-> Toggle(a.points, T),
                                     goals |-> Toggle(a.goals, T),
                                     goals_against |-> Toggle(a.goals_against, T),
                                     goal_diff |-> Toggle(a.goal_diff, T)])

C18_Witness ==
    /\ TableReturned
    /\ tab.adj = NoAdjustments
    /\ Len(tab.matches) = 3 /\ PlayedMatches(tab.matches) = {1, 3}
    /\ Rows[1].points = 3

\* the goals team t scored less the goals it conceded in the played matches
\* among the first k of the list
RECURSIVE MatchDiff(_, _, _)
MatchDiff(ms, t, k) ==
    IF k = 0 THEN 0
    ELSE MatchDiff(ms, t, k - 1)
         + (IF k \in MatchesOf(ms, t)
            THEN GoalsOf(ms[k], t) - GoalsOfOpponent(ms[k], t) ELSE 0)

\* C19: when adj_goal_diff comes with adj_goals or adj_goals_against, the
\* goal_difference of team i is adj_goal_diff[i] plus its match goal
\* differences; the goal vectors add nothing to it, and vectors that disagree
\* are accepted.
C19_GoalDiffIndependent ==
    TableReturned /\ tab.adj.goal_diff.some
    /\ (tab.adj.goals.some \/ tab.adj.goals_against.some) =>
       \A k \in DOMAIN Rows :
          LET t == Rows[k].team_id
          IN  /\ Rows[k].goal_difference
                 = tab.adj.goal_diff.v[t] + MatchDiff(tab.matches, t, Len(tab.matches))
              /\ Rows[k].goals_for - AdjAt(tab.adj.goals, t)
                 - (Rows[k].goals_against - AdjAt(tab.adj.goals_against, t))
                 = MatchDiff(tab.matches, t, Len(tab.matches))

C19_Witness ==
    /\ TableReturned
    /\ tab.adj.goal_diff.some /\ tab.adj.goals.some
    /\ \E t \in 0..(tab.number_teams - 1) :
          tab.adj.goal_diff.v[t] # tab.adj.goals.v[t] - AdjAt(tab.adj.goals_against, t)
    /\ \E k \in DOMAIN Rows :
          /\ Rows[k].goal_difference = -1
          /\ Rows[k].goals_for - Rows[k].goals_against > 0

\* the table of trial i built with the vectors the caller supplied
SuppliedTable(i) == RunTrial(season, params, adj, i).table.standings

SuppliedCount(t, pos) ==
    Cardinality({i \in 0..(N - 1) :
                   \E k \in 1..Len(SuppliedTable(i)) :
                      /\ SuppliedTable(i)[k].team_id = t
                      /\ SuppliedTable(i)[k].position = pos + 1})

\* C20: the table of every trial is built with the adjustment vectors the
\* caller supplied, as arguments of the run or as fields of the request, and
\* the returned matrix is the one of those tables.
C20_AdjustmentsApplied ==
    /\ \A w \in DOMAIN workers :
          workers[w].pc # "idle" => workers[w].table = SuppliedTable(workers[w].iteration)
    /\ main.pc = "done" =>
          main.result = BuildResult([t \in Teams |-> [pos \in Teams |-> SuppliedCount(t, pos)]],
                                    NTeams, N, entry.team_names)

----------------------------------------------------------------------------
(* Properties of run_monte_carlo_with_adjustments and of the result (Spec) *)

\* the matches of the schedule, played or not, with team t at home or away
ScheduledOf(t) ==
    {k \in 1..Len(season.matches) :
        t \in {season.matches[k].team_home, season.matches[k].team_away}}

\* adj_points[t] + 3 per scheduled match is below every other team's adj_points
CannotCatchUp(t) ==
    /\ entry.fn = "adjusted"
    /\ adj.points.some
    /\ \A u \in Teams \ {t} :
          adj.points.v[t] + WinPoints * Cardinality(ScheduledOf(t)) < adj.points.v[u]

\* the row of the returned matrix that carries the name given for team t
ResultRowOf(t) ==
    CHOOSE i \in Teams : main.result.team_names[i] = entry.team_names[t]

\* C21: in run_monte_carlo_with_adjustments a team whose highest attainable
\* points (adj_points + 3 per scheduled match) are below the adj_points of
\* every other team is last in every trial's table, so after N >= 1 trials
\* its probability of the last position is above 0.9.
C21_PenalisedIsLast ==
    \A t \in Teams :
       CannotCatchUp(t) =>
          /\ \A w \in DOMAIN workers :
                workers[w].pc # "idle" =>
                   \E k \in 1..Len(workers[w].table) :
                      /\ workers[w].table[k].team_id = t
                      /\ workers[w].table[k].position = NTeams
          /\ (main.pc = "done" /\ N >= 1) =>
                /\ position_counts[t][NTeams - 1] = N
                /\ 10 * main.result.probability_matrix[ResultRowOf(t)][NTeams - 1]
                      > 9 * Micro

C21_Witness ==
    /\ main.pc = "done" /\ TwoWorkersTwoTrials
    /\ season = SeasonEqualTeams
    /\ CannotCatchUp(2)
    /\ main.result.probability_matrix[ResultRowOf(2)][2] = Micro

\* the probability rows in team order, before the reordering of lines 70-81
TeamRows == [t \in Teams |-> [pos \in Teams |-> Prob(position_counts[t][pos], N)]]

\* the permutations of the team indices
TeamPermutations == {f \in [Teams -> Teams] : \A t \in Teams : \E i \in Teams : f[i] = t}

\* C22: the rows of the returned matrix are the per-team probability rows,
\* permuted so that the expected position (sum of (j+1) * p[j]) does not
\* decrease from row to row; team_names is permuted by the same permutation,
\* every team appears once, and the columns stay in position order.
C22_RowsByExpectedPosition ==
    main.pc = "done" =>
       /\ \E f \in TeamPermutations :
             \A i \in Teams :
                /\ main.result.probability_matrix[i] = TeamRows[f[i]]
                /\ main.result.team_names[i] = entry.team_names[f[i]]
       /\ \A i \in Teams \ {NTeams - 1} :
             AvgPosition(main.result.probability_matrix[i], NTeams)
                <= AvgPosition(main.result.probability_matrix[i + 1], NTeams)

C22_Witness ==
    /\ main.pc = "done" /\ N >= 1 /\ NTeams = 3
    /\ main.result.team_names[0] # entry.team_names[0]
    /\ AvgPosition(main.result.probability_matrix[0], NTeams)
          < AvgPosition(main.result.probability_matrix[2], NTeams)

\* the increments added to the histogram so far
Increments == SumTo([t \in Teams |-> RowSum(position_counts, t)], NTeams - 1)

\* C26: no partial result is published: while trials run there is no result,
\* and the matrix is computed and returned only after all N trials have
\* added their T increments to the histogram.
C26_NoPartialResult ==
    /\ main.pc = "par" => main.result = Idle
    /\ main.result # Idle =>
          /\ pending = {}
          /\ \A w \in DOMAIN workers : workers[w].pc = "idle"
          /\ Increments = N * NTeams
          /\ main.result = BuildResult(position_counts, NTeams, N, entry.team_names)

C26_Witness ==
    /\ main.result # Idle /\ main.run = 1
    /\ TwoWorkersTwoTrials /\ NTeams = 3
    /\ Increments = 6

\* the row locks worker w holds
LocksHeld(w) == {row \in Teams : mutex[row] = w}

\* the row whose counter worker w is about to lock or is updating
RowOf(w) == workers[w].table[workers[w].k].team_id

\* C28: the parallel tally cannot deadlock and always finishes: a worker
\* holds at most one row lock at a time, only while it updates that row, and
\* has released it before it takes the next; under fair scheduling every
\* call leaves the parallel phase with all N trials tallied, and returns.
C28_TallyFinishes ==
    /\ [](\A w \in DOMAIN workers :
             /\ Cardinality(LocksHeld(w)) <= 1
             /\ workers[w].pc \in {"read", "write"} => LocksHeld(w) = {RowOf(w)}
             /\ workers[w].pc \in {"idle", "lock"} => LocksHeld(w) = {})
    /\ (main.pc = "par") ~>
          /\ main.pc = IF SortPanics(NTeams, N) THEN "panicked" ELSE "done"
          /\ pending = {}
          /\ Increments = N * NTeams

\* worker 1 waits for the row lock that worker 2 holds
C28_Witness ==
    /\ DOMAIN workers = {1, 2}
    /\ workers[1].pc = "lock" /\ workers[1].k = 2
    /\ workers[2].pc = "write"
    /\ RowOf(1) = RowOf(2)

----------------------------------------------------------------------------
(* Properties of the HTTP adapter (SpecApi) *)

Schedule == api.request.schedule
RatedTeams == Len(api.request.elo_values)

\* the season has been built from the request
Converted == api.pc \in {"core", "panicked", "responded"} /\ api.season # Idle

\* an index cell that holds a 1-based team index
OneBased(cell) == cell.some /\ cell.v >= 1

InRange(cell) == OneBased(cell) /\ cell.v <= RatedTeams

\* C25: the adapter maps every 1-based team index k of a schedule row to the
\* core index k - 1, for the home and for the away column; a request whose
\* indices are all in [1,T] yields core matches with indices in [0,T), and
\* the goal cells of every row are passed through unchanged.
C25_IndicesShifted ==
    Converted =>
       /\ Len(api.season.matches) = Len(Schedule)
       /\ \A k \in 1..Len(Schedule) :
             LET row == Schedule[k]
                 m == api.season.matches[k]
             IN  /\ OneBased(row[1]) => m.team_home = row[1].v - 1
                 /\ OneBased(row[2]) => m.team_away = row[2].v - 1
                 /\ InRange(row[1]) => m.team_home \in 0..(RatedTeams - 1)
                 /\ InRange(row[2]) => m.team_away \in 0..(RatedTeams - 1)
                 /\ m.goals_home = IF row[3].some THEN row[3].v ELSE None
                 /\ m.goals_away = IF row[4].some THEN row[4].v ELSE None
       /\ (\A k \in 1..Len(Schedule) : InRange(Schedule[k][1]) /\ InRange(Schedule[k][2]))
             => ~IndexOutOfBounds(api.season)

C25_Witness ==
    /\ api.pc = "responded" /\ api.status = StatusOk
    /\ Len(Schedule) = 3
    /\ \A k \in 1..3 : InRange(Schedule[k][1]) /\ InRange(Schedule[k][2])
    /\ Schedule[3][1].v = RatedTeams /\ api.season.matches[3].team_home = RatedTeams - 1
    /\ Schedule[1][3].some /\ ~Schedule[2][3].some

\* the Season handed to the core has a match index outside [0,T)
ShapeViolated == Converted /\ IndexOutOfBounds(api.season)

\* C23: a shape violation of the core's input (here a match whose home or
\* away index is outside [0,T)) is detected at entry and rejected before any
\* trial runs: no trial is started, the call does not panic in the middle of
\* the run, and no result is returned.
C23_ShapeViolationsRejected ==
    ShapeViolated =>
       /\ api.trials = 0
       /\ api.pc # "panicked"
       /\ api.response = Idle

\* C24: simulate_league answers 400 when the schedule or the rating vector is
\* empty, without running a trial; every other request (any team indices,
\* null cells, any iteration count, any vector lengths) is simulated to the
\* end and answered with a result: the core does not fail.
C24_CoreCannotFail ==
    /\ api.pc # "panicked"
    /\ api.pc = "responded" =>
          IF IsBadRequest(api.request)
          THEN api.status = BadRequest /\ api.trials = 0 /\ api.response = Idle
          ELSE /\ api.status = StatusOk
               /\ api.trials = api.params.iterations
               /\ api.response # Idle

----------------------------------------------------------------------------
(* Properties of the batch handler (SpecBatch) *)

Leagues == api.leagues

\* what the task of league i produces
LeagueOutcome(i) == simulate_league_internal(Leagues[i].request, api.overflow_checks)

\* the results carry, league by league and in the order of the request, the
\* name of the league and the response computed from its request
ResultsMatchRequest(results) ==
    /\ Len(results) = Len(Leagues)
    /\ \A i \in 1..Len(Leagues) :
          /\ results[i].name = Leagues[i].name
          /\ LeagueOutcome(i).kind = "ok"
          /\ results[i].response = LeagueOutcome(i).response

====
